---- MODULE Spec2Model ----
(***************************************************************************)
(* The call-graph analyzer (MethodCallAnalyzer), the code-context          *)
(* assembler (MethodCallToCodeOutput) and stages 4-6 of the call-chain     *)
(* pipeline of AI-Codereview-Gitlab, over an analysis snapshot             *)
(* (1_analyze_project.json).                                               *)
(***************************************************************************)
EXTENDS Integers, Sequences, FiniteSets, TLC

(***************************************************************************)
(* Bounds of the model.                                                    *)
(***************************************************************************)
\* largest number of usage edges of a snapshot
MaxEdges == 3
\* largest max_depth / max_height / max_calls_out / max_calls_in of a query
MaxDepth == 2
\* largest number of changes of a run, and of signatures listed for a change
MaxChanges == 2
MaxChangeSigs == 2
\* largest number of changes of a merge request, of lines of a diff, and of
\* files of a PMD report
MaxChangeList == 3
MaxDiffLines == 2
MaxReportFiles == 2
\* largest number of files of a project tree, and of analyze_project calls
\* served by one indexer
MaxFiles == 2
MaxAnalyses == 2
\* largest number of methods grouped under a class for one assembler call
MaxGrouped == 2

(***************************************************************************)
(* Program constants.                                                      *)
(***************************************************************************)
\* max_calls_out and max_calls_in that analyze_method_calls_static asks for
MaxCallsOut == 3
MaxCallsIn == 3

(***************************************************************************)
(* Signatures.  A method signature is the string                           *)
(* "{class}.{name}({types})"; Chars gives its text cut at the dots, which  *)
(* is all that str.rpartition('.') reads.  Class names are the text before *)
(* the method name, kept as the cut text.                                  *)
(***************************************************************************)
SigA == "C.a()"
SigB == "C.b()"
SigV == "D.c(String...)"
\* a method of class C that the indexer's method-name filter ('getbyid') keeps
\* out of method_signatures
SigX == "C.getById(Long)"

ClassC == <<"C">>
ClassD == <<"D">>

\* the key of the extra entry of a code-context bundle
SelfKey == <<"self">>

\* a field of class C, used by the body of SigA
FieldF == "C.d"

\* keys of method_signatures, in the insertion order of the dict
SigOrder == <<SigA, SigB, SigV>>
Indexed == {SigOrder[i] : i \in 1..Len(SigOrder)}
\* SigX is a signature the snapshot does not hold
AllSigs == Indexed \cup {SigX}

Chars(sig) ==
    CASE sig = SigA -> <<"C", ".", "a()">>
      [] sig = SigB -> <<"C", ".", "b()">>
      [] sig = SigV -> <<"D", ".", "c(String", ".", ".", ".", ")">>
      [] sig = SigX -> <<"C", ".", "getById(Long)">>

\* class_signature_name the indexer stores with a method: the class it was
\* declared in
DeclaringClass(sig) ==
    CASE sig = SigA -> ClassC
      [] sig = SigB -> ClassC
      [] sig = SigV -> ClassD

\* keys of class_signatures, in the insertion order of the dict
ClassOrder == <<ClassC, ClassD>>
Classes == {ClassOrder[i] : i \in 1..Len(ClassOrder)}

\* a path is its text cut after the directory and before the extension
PathC == <<"src/", "C", ".java">>
PathD == <<"src/", "D", ".java">>
\* a .java path with no file in the workspace, and a file that is not Java
PathN == <<"src/", "N", ".java">>
PathR == <<"README", ".md">>

\* class_path the indexer stores with a class
ClassPath(cls) == IF cls = ClassC THEN PathC ELSE PathD

\* class_source_code of a class: comment + declaration line, then "}"
Skeleton(cls) ==
    CASE cls = ClassC -> <<"class C {", "}">>
      [] cls = ClassD -> <<"class D {", "}">>

\* method_source_code of a method: one line of text, named after the method
MethodSource(sig) == <<sig>>

\* usaged_fields of a method
UsedFields(sig) == IF sig = SigA THEN <<FieldF>> ELSE <<>>

\* field_source_code of a field: one line of text
FieldSource(field) == <<"private D d;">>

Range(s) == {s[i] : i \in 1..Len(s)}

EmptyDict == <<>>

(***************************************************************************)
(* The snapshot: usage edges given as a list of (caller, callee) pairs in  *)
(* discovery order; usage_method_signature_name of a method is the list of *)
(* its callees in that order (the same callee may be listed twice).        *)
(***************************************************************************)
RECURSIVE SeqsUpTo(_, _)
SeqsUpTo(S, n) ==
    IF n = 0 THEN {<<>>}
    ELSE LET shorter == SeqsUpTo(S, n - 1)
         IN  shorter \cup {Append(s, x) : s \in shorter, x \in S}

EdgeLists == SeqsUpTo(Indexed \X Indexed, MaxEdges)

RECURSIVE CalleesOf(_, _)
CalleesOf(edges, m) ==
    IF edges = <<>> THEN <<>>
    ELSE IF Head(edges)[1] = m
         THEN <<Head(edges)[2]>> \o CalleesOf(Tail(edges), m)
         ELSE CalleesOf(Tail(edges), m)

MethodSignatureOf(edges, sig) ==
    [class_signature_name |-> DeclaringClass(sig),
     method_source_code |-> MethodSource(sig),
     usaged_fields |-> UsedFields(sig),
     usage_method_signature_name |-> CalleesOf(edges, sig)]

Snapshot(edges) ==
    [method_signatures |-> [sig \in Indexed |-> MethodSignatureOf(edges, sig)],
     class_signatures |-> [cls \in Classes |->
        [class_source_code |-> Skeleton(cls),
         class_path |-> ClassPath(cls),
         method_signature_name |->
            SelectSeq(SigOrder, LAMBDA m : DeclaringClass(m) = cls)]],
     field_signatures |-> [f \in {FieldF} |-> [field_source_code |-> FieldSource(f)]]]

VARIABLES
    analysis_data,     \* MethodCallAnalyzer.analysis_data (1_analyze_project.json)
    caller_mapping,    \* MethodCallAnalyzer.caller_mapping
    pc,                \* where the analyzer is: "new", "ready", "loop", "done", "raised"
    op,                \* the query in progress: "none", "depth", "height", "complete", "nested"
    start,             \* method_signature of the query
    max_depth,         \* max_depth / max_height / max_calls_out of the query
    max_in,            \* max_calls_in of get_complete_/get_nested_method_relationship
    queue,             \* the deque of (method, depth) pairs
    visited,           \* the visited set
    chain,             \* call_chain_by_depth / caller_chain_by_height: depth -> list
    result,            \* what the query returned (EmptyDict while none)
    ppc,               \* where _process_java_changes is: "off", "stage4", "stage5",
                       \* "stage6", "returned" (the prompts) or "none" (returned None)
    changed_methods,   \* 2_changed_methods.json: change index -> its record
    method_calls,      \* 3_method_calls.json: change index -> signature -> nested graph
    code_context,      \* 4_code_context.json: change index -> signature -> bundle
    prompts,           \* 5_changed_prompt.json: change index -> record with its prompt
    changes,           \* the changes of the merge request handed to stage 3
    cursor,            \* how many changes the loop of stage 3 has been through
    pmd_report,        \* plugin_pmd_report_enhanced.json as stage 3.2 loaded it
    indexer,           \* the JavaProjectAnalyzer: its maps, indices and keyword lists
    project,           \* the tree of the latest analyze_project call
    analyses,          \* how many analyze_project calls the indexer has served
    ipc,               \* where analyze_project is: "idle", or "indexed" when the
                       \* files are scanned and the usage pass is still to come
    pmd_report_data,   \* the report dict that filter_by_level works on
    p3c_env,           \* the CODE_ANALYSIS_*_JAVA_P3C_LEVEL_* settings of the environment
    fpc,               \* where the report formatter is: "off", "loaded", "filtered"
    build,             \* the call of _build_class_source_code: its arguments, where
                       \* it is ("called", "returned") and what it returned
    scan,              \* a call of one of the indexer's text scans: which one, its
                       \* arguments, where it is and what it returned
    runs,              \* the analysis runs in progress: run -> its project name,
                       \* where it is and which artefacts it has read
    disk               \* the artefact files on disk: path -> the run that wrote it

analyzerVars == <<analysis_data, caller_mapping, pc, op, start, max_depth, max_in,
                  queue, visited, chain, result>>

pipelineVars == <<ppc, changed_methods, method_calls, code_context, prompts>>

extractVars == <<changes, cursor, pmd_report>>

indexVars == <<indexer, project, analyses, ipc>>

levelVars == <<pmd_report_data, p3c_env, fpc>>

\* what stage 3 and the analyzer queries never touch
sideVars == <<scan, runs, disk>>

toolVars == <<indexVars, levelVars, build, sideVars>>

\* what the analyzer queries and stages 4-6 never touch
restVars == <<extractVars, toolVars>>

vars == <<analyzerVars, pipelineVars, restVars>>

(***************************************************************************)
(* MethodCallAnalyzer._build_caller_mapping                                *)
(***************************************************************************)
\* lines 51-53: mapping[called].append(caller), creating the list when absent
RecordCallerReset(mapping, called, caller) ==
    [k \in DOMAIN mapping \cup {called} |->
        IF k = called THEN <<caller>> ELSE mapping[k]]

RecordCallerFirstOnly(mapping, called, caller) ==
    IF called \in DOMAIN mapping THEN mapping
    ELSE [k \in DOMAIN mapping \cup {called} |->
            IF k = called THEN <<caller>> ELSE mapping[k]]

RecordCaller(mapping, called, caller) ==
    [k \in DOMAIN mapping \cup {called} |->
        IF k = called
        THEN (IF called \in DOMAIN mapping THEN mapping[called] ELSE <<>>) \o <<caller>>
        ELSE mapping[k]]

\* lines 50-53: the inner loop over called_methods
RECURSIVE RecordCallees(_, _, _)
RecordCallees(mapping, caller, called_methods) ==
    IF called_methods = <<>> THEN mapping
    ELSE RecordCallees(RecordCaller(mapping, Head(called_methods), caller),
                       caller, Tail(called_methods))

\* lines 45-53: the outer loop over method_signatures.items()
RECURSIVE BuildCallerMappingFrom(_, _, _)
BuildCallerMappingFrom(method_signatures, order, mapping) ==
    IF order = <<>> THEN mapping
    ELSE BuildCallerMappingFrom(
            method_signatures, Tail(order),
            RecordCallees(mapping, Head(order),
                method_signatures[Head(order)].usage_method_signature_name))

BuildCallerMapping(data) ==
    BuildCallerMappingFrom(data.method_signatures, SigOrder, EmptyDict)

(***************************************************************************)
(* The flat traversals: get_method_call_chain_by_depth (lines 59-102) and  *)
(* get_method_callers_by_height (lines 104-147).  A traversal state is the *)
(* record of the loop's locals; raised is set when the loop body raised.   *)
(***************************************************************************)
\* lines 70, 115, 161, 187: method_signature in analysis_data["method_signatures"]
HasSignatureAlways(sig) == TRUE

HasSignature(sig) == sig \in DOMAIN analysis_data.method_signatures

\* lines 79, 124: queue.popleft()
DequeuePeek(q) == [item |-> Head(q), rest |-> q]

DequeueRight(q) == [item |-> q[Len(q)], rest |-> SubSeq(q, 1, Len(q) - 1)]

Dequeue(q) == [item |-> Head(q), rest |-> Tail(q)]

\* lines 82, 127: already visited, or deeper than the maximum
SkipDepthOnly(m, d, seen, max) == d > max

Skip(m, d, seen, max) == m \in seen \/ d > max

\* lines 91-93, 136-138: append the method to the list of its depth
AppendBucket(ch, d, m) ==
    [k \in DOMAIN ch \cup {d} |->
        IF k = d THEN (IF d \in DOMAIN ch THEN ch[d] ELSE <<>>) \o <<m>>
        ELSE ch[k]]

\* line 142: self.caller_mapping.get(current_method, [])
CallersGet(mapping, m) == IF m \in DOMAIN mapping THEN mapping[m] ELSE <<>>

\* line 97: analysis_data["method_signatures"][current_method]["usage_method_signature_name"]
UsedMethods(m) == analysis_data.method_signatures[m].usage_method_signature_name

\* lines 98-100, 143-145: the neighbours not yet visited, one level further
RECURSIVE Unvisited(_, _, _)
Unvisited(neighbours, seen, d) ==
    IF neighbours = <<>> THEN <<>>
    ELSE IF Head(neighbours) \notin seen
         THEN <<<<Head(neighbours), d>>>> \o Unvisited(Tail(neighbours), seen, d)
         ELSE Unvisited(Tail(neighbours), seen, d)

StartState(sig) ==
    [queue |-> <<<<sig, 0>>>>, visited |-> {}, chain |-> EmptyDict, raised |-> FALSE]

\* one iteration of the while loop (lines 78-100 with kind "depth",
\* lines 123-145 with kind "height")
BfsStep(st, kind, max) ==
    LET dq == Dequeue(st.queue)
        m == dq.item[1]
        d == dq.item[2]
        seen == st.visited \cup {m}
    IN  IF Skip(m, d, st.visited, max)
        THEN [st EXCEPT !.queue = dq.rest]
        ELSE IF d < max
        THEN IF kind = "depth" /\ m \notin DOMAIN analysis_data.method_signatures
             THEN \* KeyError at line 97
                  [queue |-> dq.rest, visited |-> seen,
                   chain |-> AppendBucket(st.chain, d, m), raised |-> TRUE]
             ELSE [queue |-> dq.rest \o
                        Unvisited(IF kind = "depth" THEN UsedMethods(m)
                                  ELSE CallersGet(caller_mapping, m), seen, d + 1),
                   visited |-> seen,
                   chain |-> AppendBucket(st.chain, d, m), raised |-> FALSE]
        ELSE [queue |-> dq.rest, visited |-> seen,
              chain |-> AppendBucket(st.chain, d, m), raised |-> FALSE]

\* the whole loop, for the callers that run a traversal inside one call
RECURSIVE BfsRun(_, _, _)
BfsRun(st, kind, max) ==
    IF st.raised \/ st.queue = <<>> THEN st
    ELSE BfsRun(BfsStep(st, kind, max), kind, max)

(***************************************************************************)
(* The nested view: _build_nested_calls_in (lines 237-268) and             *)
(* _build_nested_calls_out (lines 201-235).                                *)
(***************************************************************************)
\* mapping is the caller_mapping of the analyzer that answers the query
RECURSIVE NestedCallsIn(_, _, _, _)
NestedCallsIn(mapping, sig, depth, seen) ==
    IF depth <= 0 \/ sig \in seen THEN EmptyDict
    ELSE [caller \in Range(CallersGet(mapping, sig)) |->
            [calls_out |-> EmptyDict,
             calls_in |-> NestedCallsIn(mapping, caller, depth - 1, seen \cup {sig})]]

NestedCallsOut(mapping, sig, depth, seen) ==
    IF depth <= 0 \/ sig \in seen THEN EmptyDict
    ELSE IF sig \notin DOMAIN analysis_data.method_signatures THEN EmptyDict
    ELSE [called \in Range(UsedMethods(sig)) |->
            [calls_out |-> EmptyDict,
             calls_in |-> NestedCallsIn(mapping, called, depth - 1, seen \cup {sig})]]

\* lines 187-199: the body of get_nested_method_relationship for a known signature
NestedRelationship(mapping, sig, out, in) ==
    [calls_out |-> NestedCallsOut(mapping, sig, out, {}),
     calls_in |-> NestedCallsIn(mapping, sig, in, {})]

(***************************************************************************)
(* MethodCallToCodeOutput: the code-context bundle of a signature.  A text *)
(* is the list of its lines.                                               *)
(***************************************************************************)
\* str.rpartition('.')[0] (lines 271, 275): the text before the last dot
LastDot(chars) ==
    LET dots == {i \in 1..Len(chars) : chars[i] = "."}
    IN  IF dots = {} THEN 0 ELSE CHOOSE i \in dots : \A j \in dots : j <= i

RPartitionHead(sig) ==
    LET chars == Chars(sig)
    IN  IF LastDot(chars) = 0 THEN <<>> ELSE SubSeq(chars, 1, LastDot(chars) - 1)

\* lines 118-120, 124-126: iterate the values of a graph, then each value
LevelMethods(graph) == UNION {DOMAIN graph[k] : k \in DOMAIN graph}

\* _get_all_related_methods (lines 96-132)
GetAllRelatedMethods(method_call_data, sig) ==
    IF sig \notin DOMAIN method_call_data THEN {sig}
    ELSE LevelMethods(method_call_data[sig].calls_out)
            \cup LevelMethods(method_call_data[sig].calls_in)
            \cup {sig}

MethodsInOrder(S) == SelectSeq(SigOrder, LAMBDA m : m \in S)

\* _group_methods_by_class (lines 134-157)
GroupMethodsByClass(related) ==
    LET known == {m \in related : m \in DOMAIN analysis_data.method_signatures}
        classOf(m) == analysis_data.method_signatures[m].class_signature_name
        named == {m \in known : classOf(m) # <<>>}
    IN  [cls \in {classOf(m) : m \in named} |->
            MethodsInOrder({m \in named : classOf(m) = cls})]

RECURSIVE Flatten(_)
Flatten(texts) ==
    IF texts = <<>> THEN <<>> ELSE Head(texts) \o Flatten(Tail(texts))

\* str.rstrip() (line 207): the trailing blank lines go, and the trailing
\* blanks of the last line left
RECURSIVE RStrip(_)
RStrip(text) ==
    IF text = <<>> THEN <<>>
    ELSE LET n == Len(text)
         IN  IF text[n] \in {"", " "} THEN RStrip(SubSeq(text, 1, n - 1))
             ELSE IF text[n] = "}  " THEN SubSeq(text, 1, n - 1) \o <<"}">>
             ELSE text

\* str.endswith('}') (line 208), for a line
EndsWithBraceAlways(line) == TRUE

EndsWithBrace(line) == line \in {"}", "class C {}"}

\* line[:-1] (line 209)
DropLastChar(line) ==
    CASE line = "}" -> ""
      [] line = "class C {}" -> "class C {"
      [] line = "class C {" -> "class C "
      [] line = "// end" -> "// en"

\* _build_class_source_code (lines 159-237); the indentation and the blank
\* lines it puts between the parts are left out
BuildClassSourceCode(cls, methods) ==
    LET ms == analysis_data.method_signatures
        class_source_code ==
            IF cls \in DOMAIN analysis_data.class_signatures
            THEN analysis_data.class_signatures[cls].class_source_code
            ELSE <<>>
        known == SelectSeq(methods, LAMBDA m : m \in DOMAIN ms)
        method_source_codes ==
            Flatten([i \in 1..Len(known) |-> ms[known[i]].method_source_code])
        used_field_signatures ==
            UNION {Range(ms[known[i]].usaged_fields) : i \in 1..Len(known)}
        field_source_codes ==
            SelectSeq(
                Flatten([i \in 1..Len(SelectSeq(<<FieldF>>, LAMBDA f :
                            f \in used_field_signatures
                            /\ f \in DOMAIN analysis_data.field_signatures)) |->
                         analysis_data.field_signatures[FieldF].field_source_code]),
                LAMBDA line : line \notin {"", " "})
        combined_source == RStrip(class_source_code)
        n == Len(combined_source)
    IN  IF class_source_code = <<>> THEN <<>>
        ELSE IF n > 0 /\ EndsWithBrace(combined_source[n])
        THEN IF field_source_codes = <<>> /\ method_source_codes = <<>>
             THEN combined_source
             ELSE SubSeq(combined_source, 1, n - 1)
                     \o (IF DropLastChar(combined_source[n]) = "" THEN <<>>
                         ELSE <<DropLastChar(combined_source[n])>>)
                     \o field_source_codes \o method_source_codes \o <<"}">>
        ELSE class_source_code

\* line 274 raises KeyError for a key of the call data that the snapshot lacks
ConvertRaises(method_call_data) ==
    \E sig \in DOMAIN method_call_data : sig \notin DOMAIN analysis_data.method_signatures

\* lines 256-278: the bundle of one signature
ClassSourceMap(method_call_data, sig) ==
    LET class_methods == GroupMethodsByClass(GetAllRelatedMethods(method_call_data, sig))
        built == [cls \in DOMAIN class_methods |->
                    BuildClassSourceCode(cls, class_methods[cls])]
        need_class == RPartitionHead(sig)
        need_methods == <<sig>> \o SelectSeq(UsedMethods(sig),
                                    LAMBDA t : RPartitionHead(t) = need_class)
    IN  [k \in {cls \in DOMAIN built : built[cls] # <<>>} \cup {SelfKey} |->
            IF k = SelfKey THEN BuildClassSourceCode(need_class, need_methods)
            ELSE built[k]]

\* MethodCallToCodeOutput.convert (lines 239-292)
Convert(method_call_data) ==
    [sig \in DOMAIN method_call_data |-> ClassSourceMap(method_call_data, sig)]

(***************************************************************************)
(* Stages 4-6 of CallChainAnalysisService._process_java_changes.           *)
(***************************************************************************)
\* the first key of a dict filled in the order of a list
FirstKey(list, keys) == SelectSeq(list, LAMBDA x : x \in keys)[1]

\* analyze_method_calls_static, lines 307-336: the signatures whose query
\* raised are left out of their change's entry
MethodCallsOf(changed) ==
    LET mapping == BuildCallerMapping(analysis_data)
    IN  [idx \in DOMAIN changed |->
            [sig \in {t \in Range(changed[idx].method_signatures) : HasSignature(t)} |->
                NestedRelationship(mapping, sig, MaxCallsOut, MaxCallsIn)]]

\* format_code_context, lines 353-370: a change whose conversion raised is
\* left out
CodeContextOf(calls) ==
    [idx \in {i \in DOMAIN calls : ~ConvertRaises(calls[i])} |-> Convert(calls[idx])]

\* generate_assemble_prompt, line 150, raises for a change with no entry in
\* the code context (KeyError) or with an empty one (StopIteration)
AssembleRaises(changed, context) ==
    \E idx \in DOMAIN changed :
        idx \notin DOMAIN context \/ DOMAIN context[idx] = {}

\* generate_assemble_prompt, lines 142-156
PromptsOf(changed, context) ==
    [idx \in DOMAIN changed |->
        [method_signatures |-> changed[idx].method_signatures,
         prompt |-> context[idx][FirstKey(changed[idx].method_signatures,
                                          DOMAIN context[idx])][SelfKey],
         language |-> "java"]]

ChangeLists == SeqsUpTo(AllSigs, MaxChangeSigs) \ {<<>>}

ChangedMaps ==
    UNION {[0..(n - 1) -> [method_signatures : ChangeLists]] : n \in 1..MaxChanges}

(***************************************************************************)
(* Initial state: a snapshot on disk, no analyzer built yet.               *)
(***************************************************************************)
AnalyzerInit ==
    /\ analysis_data \in {Snapshot(edges) : edges \in EdgeLists}
    /\ caller_mapping = EmptyDict
    /\ pc = "new"
    /\ op = "none"
    /\ start = SigA
    /\ max_depth = 0
    /\ max_in = 0
    /\ queue = <<>>
    /\ visited = {}
    /\ chain = EmptyDict
    /\ result = EmptyDict

\* neither the report formatter nor a lone assembler call is in progress
\* no analyze_project call, no text scan and no analysis run is in progress
SideIdle ==
    /\ ipc = "idle"
    /\ scan = EmptyDict
    /\ runs = EmptyDict
    /\ disk = EmptyDict

ToolsIdle ==
    /\ pmd_report_data = EmptyDict
    /\ p3c_env = EmptyDict
    /\ fpc = "off"
    /\ build = EmptyDict
    /\ SideIdle

\* nothing but the analyzer and stages 4-6 is in progress
RestIdle ==
    /\ changes = <<>>
    /\ cursor = 0
    /\ pmd_report = EmptyDict
    /\ indexer = EmptyDict
    /\ project = <<>>
    /\ analyses = 0
    /\ ToolsIdle

Init ==
    /\ AnalyzerInit
    /\ ppc = "off"
    /\ changed_methods = EmptyDict
    /\ method_calls = EmptyDict
    /\ code_context = EmptyDict
    /\ prompts = EmptyDict
    /\ RestIdle

\* MethodCallAnalyzer.__init__ (lines 11-25)
NewAnalyzer ==
    /\ pc = "new"
    /\ caller_mapping' = BuildCallerMapping(analysis_data)
    /\ pc' = "ready"
    /\ UNCHANGED <<analysis_data, op, start, max_depth, max_in, queue, visited,
                   chain, result>>
    /\ UNCHANGED <<pipelineVars, restVars>>

\* entry of a flat traversal (lines 70-76, 115-121): raise, or set up the loop
StartFlat(kind, sig, max) ==
    /\ pc = "ready"
    /\ op' = kind
    /\ start' = sig
    /\ max_depth' = max
    /\ IF HasSignature(sig)
       THEN /\ pc' = "loop"
            /\ queue' = StartState(sig).queue
            /\ visited' = StartState(sig).visited
            /\ chain' = StartState(sig).chain
       ELSE /\ pc' = "raised"
            /\ UNCHANGED <<queue, visited, chain>>
    /\ UNCHANGED <<analysis_data, caller_mapping, max_in, result>>
    /\ UNCHANGED <<pipelineVars, restVars>>

GetMethodCallChainByDepth ==
    \E sig \in AllSigs, max \in 0..MaxDepth : StartFlat("depth", sig, max)

GetMethodCallersByHeight ==
    \E sig \in AllSigs, max \in 0..MaxDepth : StartFlat("height", sig, max)

\* one iteration of the while loop of the traversal in progress
LoopStep ==
    /\ pc = "loop"
    /\ queue # <<>>
    /\ LET st == BfsStep([queue |-> queue, visited |-> visited, chain |-> chain,
                          raised |-> FALSE], op, max_depth)
       IN  /\ queue' = st.queue
           /\ visited' = st.visited
           /\ chain' = st.chain
           /\ pc' = IF st.raised THEN "raised" ELSE "loop"
    /\ UNCHANGED <<analysis_data, caller_mapping, op, start, max_depth, max_in, result>>
    /\ UNCHANGED <<pipelineVars, restVars>>

\* the queue is empty: lines 102, 147 return the layered chain
LoopExit ==
    /\ pc = "loop"
    /\ queue = <<>>
    /\ pc' = "done"
    /\ result' = chain
    /\ UNCHANGED <<analysis_data, caller_mapping, op, start, max_depth, max_in,
                   queue, visited, chain>>
    /\ UNCHANGED <<pipelineVars, restVars>>

\* get_complete_method_relationship (lines 149-173)
GetCompleteMethodRelationship ==
    \E sig \in AllSigs, out \in 0..MaxDepth, in \in 0..MaxDepth :
        /\ pc = "ready"
        /\ op' = "complete"
        /\ start' = sig
        /\ max_depth' = out
        /\ max_in' = in
        /\ IF HasSignature(sig)
           THEN LET called == BfsRun(StartState(sig), "depth", out)
                    callers == BfsRun(StartState(sig), "height", in)
                IN  IF called.raised \/ callers.raised
                    THEN pc' = "raised" /\ UNCHANGED result
                    ELSE /\ pc' = "done"
                         /\ result' = [calls_out |-> called.chain,
                                       calls_in |-> callers.chain]
           ELSE pc' = "raised" /\ UNCHANGED result
        /\ UNCHANGED <<analysis_data, caller_mapping, queue, visited, chain>>
        /\ UNCHANGED <<pipelineVars, restVars>>

\* get_nested_method_relationship (lines 175-199)
GetNestedMethodRelationship ==
    \E sig \in AllSigs, out \in 0..MaxDepth, in \in 0..MaxDepth :
        /\ pc = "ready"
        /\ op' = "nested"
        /\ start' = sig
        /\ max_depth' = out
        /\ max_in' = in
        /\ IF HasSignature(sig)
           THEN /\ pc' = "done"
                /\ result' = NestedRelationship(caller_mapping, sig, out, in)
           ELSE pc' = "raised" /\ UNCHANGED result
        /\ UNCHANGED <<analysis_data, caller_mapping, queue, visited, chain>>
        /\ UNCHANGED <<pipelineVars, restVars>>

\* the caller takes the result (or the error) and the analyzer is idle again
Return ==
    /\ pc \in {"done", "raised"}
    /\ pc' = "ready"
    /\ op' = "none"
    /\ start' = SigA
    /\ max_depth' = 0
    /\ max_in' = 0
    /\ queue' = <<>>
    /\ visited' = {}
    /\ chain' = EmptyDict
    /\ result' = EmptyDict
    /\ UNCHANGED <<analysis_data, caller_mapping>>
    /\ UNCHANGED <<pipelineVars, restVars>>

Next ==
    \/ NewAnalyzer
    \/ GetMethodCallChainByDepth
    \/ GetMethodCallersByHeight
    \/ LoopStep
    \/ LoopExit
    \/ GetCompleteMethodRelationship
    \/ GetNestedMethodRelationship
    \/ Return

Spec == Init /\ [][Next]_vars

(***************************************************************************)
(* The pipeline run: stage 3 has written 2_changed_methods.json (it        *)
(* returns no file when no change has a signature), stages 4-6 follow.     *)
(***************************************************************************)
PipelineInit ==
    /\ AnalyzerInit
    /\ ppc = "stage4"
    /\ changed_methods \in ChangedMaps
    /\ method_calls = EmptyDict
    /\ code_context = EmptyDict
    /\ prompts = EmptyDict
    /\ RestIdle

\* analyze_method_calls_static (lines 272-347); an empty map of changes
\* returns no file, which stage 5 reads as an empty map
Stage4 ==
    /\ ppc = "stage4"
    /\ method_calls' = IF DOMAIN changed_methods = {} THEN EmptyDict
                       ELSE MethodCallsOf(changed_methods)
    /\ ppc' = "stage5"
    /\ UNCHANGED <<changed_methods, code_context, prompts>>
    /\ UNCHANGED <<analyzerVars, restVars>>

\* format_code_context (lines 319-382) and the test of its result
\* (call_chain_analysis_service.py lines 159-163)
Stage5 ==
    /\ ppc = "stage5"
    /\ IF DOMAIN method_calls = {}
       THEN ppc' = "none" /\ UNCHANGED code_context
       ELSE /\ code_context' = CodeContextOf(method_calls)
            /\ ppc' = "stage6"
    /\ UNCHANGED <<changed_methods, method_calls, prompts>>
    /\ UNCHANGED <<analyzerVars, restVars>>

\* generate_assemble_prompt (java_code_to_md.py lines 124-166) and the
\* return of _process_java_changes (lines 166-173)
Stage6 ==
    /\ ppc = "stage6"
    /\ IF \/ DOMAIN changed_methods = {}
          \/ DOMAIN code_context = {}
          \/ AssembleRaises(changed_methods, code_context)
       THEN ppc' = "none" /\ UNCHANGED prompts
       ELSE /\ prompts' = LET new == PromptsOf(changed_methods, code_context)
                          IN  [idx \in DOMAIN prompts \cup DOMAIN new |->
                                 IF idx \in DOMAIN new THEN new[idx] ELSE prompts[idx]]
            /\ ppc' = "returned"
    /\ UNCHANGED <<changed_methods, method_calls, code_context>>
    /\ UNCHANGED <<analyzerVars, restVars>>

PipelineNext == Stage4 \/ Stage5 \/ Stage6

SpecPipeline == PipelineInit /\ [][PipelineNext]_vars

\* the two flat traversals alone, run step by step
FlatNext ==
    \/ NewAnalyzer
    \/ GetMethodCallChainByDepth
    \/ GetMethodCallersByHeight
    \/ LoopStep
    \/ LoopExit
    \/ Return

\* the traversal loop is sequential code: an iteration that can run does run
SpecLive == Init /\ [][FlatNext]_vars /\ WF_vars(LoopStep) /\ WF_vars(LoopExit)

(***************************************************************************)
(* Stage 3: ChangedSignatureExtractor.  A diff is the list of its lines,   *)
(* each the mark of the unified diff and the text after it; a code view is *)
(* the list of its lines.                                                  *)
(***************************************************************************)
\* one-line method declarations, an import and a statement
LineA == "public void a() {}"
LineG == "public C getById(Long id) {}"
LineImport == "import q.D;"
LineStmt == "d.c(x);"

DiffLines == [mark : {"+", "-", " "}, text : {LineA, LineG, LineImport, LineStmt}]

\* the files of the checked-out project
WorkspaceFiles == {PathC, PathD}

\* GitDiffParser.get_new_code / get_old_code: the context lines with the
\* added (removed) ones, import, package and blank lines left out
RECURSIVE ViewOf(_, _)
ViewOf(diff, dropped) ==
    IF diff = <<>> THEN <<>>
    ELSE IF Head(diff).mark = dropped \/ Head(diff).text = LineImport
         THEN ViewOf(Tail(diff), dropped)
         ELSE <<Head(diff).text>> \o ViewOf(Tail(diff), dropped)

GetNewCode(diff) == ViewOf(diff, "-")

GetOldCode(diff) == ViewOf(diff, "+")

\* _is_java_change (lines 97-101)
EndsWithJava(path) == path # <<>> /\ path[Len(path)] = ".java"

IsJavaChange(change) == change.diff # <<>> /\ EndsWithJava(change.new_path)

\* _find_actual_file_path (lines 557-592): the file in the workspace, or ""
FindActualFilePath(file_path) ==
    IF file_path \in WorkspaceFiles THEN file_path ELSE <<>>

\* os.path.basename
Basename(path) == SubSeq(path, Len(path) - 1, Len(path))

\* _find_class_signature_by_file_path (lines 298-350): the first class, in
\* the order of the dict, whose class_path is the path or has its file name
FindClassSignatureByFilePath(file_path, data) ==
    LET hits == SelectSeq(ClassOrder, LAMBDA cls :
                    /\ cls \in DOMAIN data.class_signatures
                    /\ \/ data.class_signatures[cls].class_path = file_path
                       \/ Basename(data.class_signatures[cls].class_path)
                              = Basename(file_path))
    IN  IF hits = <<>> THEN <<>> ELSE hits[1]

\* _find_method_signatures_by_class (lines 352-367)
FindMethodSignaturesByClass(cls, data) ==
    IF cls \in DOMAIN data.class_signatures
    THEN data.class_signatures[cls].method_signature_name
    ELSE <<>>

\* JavaProjectAnalyzer._method_pattern (java_project_analyzer.py lines 78-81)
\* finds a declaration in the line
MethodPatternMatches(text) == text \in {LineA, LineG}

\* JavaProjectAnalyzer._extract_method_signature (lines 934-946): the name
\* and the parameter types of the declaration
ExtractMethodSignature(text) ==
    CASE text = LineA -> "a()"
      [] text = LineG -> "getById(Long)"
      [] OTHER -> ""

\* the text of a class name
ClassText(cls) == Head(cls)

\* _extract_method_signatures_from_code_snippet (lines 153-166)
RECURSIVE ExtractMethodSignaturesFromCodeSnippet(_, _)
ExtractMethodSignaturesFromCodeSnippet(code, cls) ==
    IF code = <<>> \/ cls = <<>> THEN <<>>
    ELSE LET sig == ExtractMethodSignature(Head(code))
             rest == ExtractMethodSignaturesFromCodeSnippet(Tail(code), cls)
         IN  IF MethodPatternMatches(Head(code)) /\ sig # ""
             THEN <<ClassText(cls) \o "." \o sig>> \o rest
             ELSE rest

\* _extract_method_signatures_from_code (lines 111-151)
ExtractMethodSignaturesFromCode(code, file_path, data) ==
    LET actual_file_path == FindActualFilePath(file_path)
        cls == FindClassSignatureByFilePath(actual_file_path, data)
    IN  IF code = <<>> \/ ~EndsWithJava(file_path) THEN <<>>
        ELSE IF actual_file_path = <<>> THEN <<>>
        ELSE IF cls = <<>> THEN <<>>
        ELSE IF FindMethodSignaturesByClass(cls, data) = <<>> THEN <<>>
        ELSE ExtractMethodSignaturesFromCodeSnippet(code, cls)

\* lines 70-76: changed_method_signatures_map[i] = {...}
RecordChangeCompact(map, i, record) ==
    [k \in DOMAIN map \cup {Cardinality(DOMAIN map)} |->
        IF k = Cardinality(DOMAIN map) THEN record ELSE map[k]]

RecordChange(map, i, record) ==
    [k \in DOMAIN map \cup {i} |-> IF k = i THEN record ELSE map[k]]

\* lines 49-79: the body of the loop for change number i
ExtractChange(map, i, change, data) ==
    LET new_code == GetNewCode(change.diff)
        method_signatures ==
            ExtractMethodSignaturesFromCode(new_code, change.new_path, data)
    IN  IF ~IsJavaChange(change) THEN map
        ELSE IF new_code = <<>> THEN map
        ELSE IF method_signatures = <<>> THEN map
        ELSE RecordChange(map, i,
                [method_signatures |-> method_signatures,
                 old_code |-> GetOldCode(change.diff),
                 new_code |-> new_code,
                 file_path |-> change.new_path,
                 diffs_text |-> change.diff])

\* _filter_pmd_checked_methods, lines 344-349: the signatures the report flags
SkipMethodSignatures(report) ==
    UNION {Range(report.files[i].method_signature) : i \in 1..Len(report.files)}

\* _filter_pmd_checked_methods (call_chain_analysis_service.py lines 317-400);
\* the empty map stands for the None it returns
FilterPmdCheckedMethods(report, changed) ==
    IF report = EmptyDict \/ changed = EmptyDict THEN EmptyDict
    ELSE LET skip == SkipMethodSignatures(report)
             kept(idx) == SelectSeq(changed[idx].method_signatures,
                                    LAMBDA m : m \notin skip)
         IN  [idx \in {i \in DOMAIN changed : kept(i) # <<>>} |->
                [changed[idx] EXCEPT !.method_signatures = kept(idx)]]

\* changes to C.java that add a, remove a, add a statement, add a statement
\* to getById; the addition of a to a missing file and to a file that is
\* not Java
SampleChanges ==
    [new_path : {PathC},
     diff : {<<[mark |-> "+", text |-> LineA]>>,
             <<[mark |-> "-", text |-> LineA]>>,
             <<[mark |-> "+", text |-> LineStmt]>>,
             <<[mark |-> " ", text |-> LineG], [mark |-> "+", text |-> LineStmt]>>}]
        \cup [new_path : {PathN, PathR}, diff : {<<[mark |-> "+", text |-> LineA]>>}]

\* merge requests of several changes, and of one change with any diff
ChangeInputs ==
    SeqsUpTo(SampleChanges, MaxChangeList)
        \cup {<<c>> : c \in [new_path : {PathC, PathN, PathR},
                             diff : SeqsUpTo(DiffLines, MaxDiffLines)]}

\* a PMD report: no report, or files with their flagged signatures
PmdReports ==
    {EmptyDict} \cup
    {[files |-> fs] :
        fs \in SeqsUpTo([method_signature : {<<>>, <<SigA>>, <<SigX>>}], MaxReportFiles)}

\* stage 2 has written the snapshot and stage 3 starts on the changes
ExtractInit ==
    /\ analysis_data = Snapshot(<<>>)
    /\ caller_mapping = EmptyDict
    /\ pc = "new"
    /\ op = "none"
    /\ start = SigA
    /\ max_depth = 0
    /\ max_in = 0
    /\ queue = <<>>
    /\ visited = {}
    /\ chain = EmptyDict
    /\ result = EmptyDict
    /\ ppc = "stage3"
    /\ changed_methods = EmptyDict
    /\ method_calls = EmptyDict
    /\ code_context = EmptyDict
    /\ prompts = EmptyDict
    /\ changes \in ChangeInputs
    /\ cursor = 0
    /\ pmd_report = EmptyDict
    /\ indexer = EmptyDict
    /\ project = <<>>
    /\ analyses = 0
    /\ ToolsIdle

\* one iteration of the loop of extract_changed_method_signatures (lines 48-79)
ExtractStep ==
    /\ ppc = "stage3"
    /\ cursor < Len(changes)
    /\ changed_methods' =
          ExtractChange(changed_methods, cursor, changes[cursor + 1], analysis_data)
    /\ cursor' = cursor + 1
    /\ UNCHANGED <<ppc, method_calls, code_context, prompts, changes, pmd_report>>
    /\ UNCHANGED <<analyzerVars, toolVars>>

\* the loop is over (lines 81-91); _process_java_changes gives up when no
\* change has a signature (call_chain_analysis_service.py lines 122-124)
ExtractReturn ==
    /\ ppc = "stage3"
    /\ cursor = Len(changes)
    /\ ppc' = IF changed_methods # EmptyDict THEN "stage3.2" ELSE "none"
    /\ UNCHANGED <<changed_methods, method_calls, code_context, prompts>>
    /\ UNCHANGED <<analyzerVars, extractVars, toolVars>>

\* stage 3.2 (call_chain_analysis_service.py lines 141-150), on the report
\* that the PMD run left
Stage3Filter ==
    \E report \in PmdReports :
        /\ ppc = "stage3.2"
        /\ pmd_report' = report
        /\ changed_methods' =
              LET filtered == FilterPmdCheckedMethods(report, changed_methods)
              IN  IF filtered # EmptyDict THEN filtered ELSE changed_methods
        /\ ppc' = "stage4"
        /\ UNCHANGED <<method_calls, code_context, prompts, changes, cursor>>
        /\ UNCHANGED <<analyzerVars, toolVars>>

ExtractNext == ExtractStep \/ ExtractReturn \/ Stage3Filter

SpecExtract == ExtractInit /\ [][ExtractNext]_vars

(***************************************************************************)
(* JavaProjectAnalyzer: the indexer.  A name is its text cut where a       *)
(* filter keyword, the Impl suffix or another name of the tree can begin   *)
(* or end; a method source is the list of its tokens.                      *)
(***************************************************************************)
\* METHOD_FILTER_KEYWORDS (line 137)
MethodFilterKeywords == {<<"getbyid">>}

\* str.lower(), piece by piece
Lower(name) ==
    LET LowerToken(t) ==
          CASE t = "Impl" -> "impl"
            [] t = "Test" -> "test"
            [] t = "Kit" -> "kit"
            [] t = "Svc" -> "svc"
            [] t = "Dao" -> "dao"
            [] t = "Row" -> "row"
            [] t = "First" -> "first"
            [] t = "All" -> "all"
            [] t = "getById" -> "getbyid"
            [] t = "(Long)" -> "(long)"
            [] OTHER -> t
    IN  [i \in 1..Len(name) |-> LowerToken(name[i])]

\* needle in hay, for texts cut into pieces
Contains(hay, needle) ==
    \E i \in 1..(Len(hay) - Len(needle) + 1) :
        SubSeq(hay, i, i + Len(needle) - 1) = needle

\* dict[key] = value
Put(map, key, value) ==
    [k \in DOMAIN map \cup {key} |-> IF k = key THEN value ELSE map[k]]

\* the files a project tree can hold: Dao.java (methods find and findAll),
\* DaoImpl.java, dto/v1/Row.java, Svc.java (run calls dao.findAll()) and
\* Two.java with the classes First and TestKit.  mode is "ok", "read"
\* (open or read raises) or "scan" (the signature of the second method of
\* the last class raises re.error in _remove_parameter_names, line 978)
JavaFile(name, mode) ==
    LET method(sig, code, bad) == [sig |-> sig, code |-> code, raises |-> bad]
        plain(n) == method(<<n, "()">>, <<"void", n, "()", "{", "}">>, FALSE)
    IN  [readable |-> mode # "read",
         class_path |-> <<"a/", name, ".java">>,
         package_name |-> IF name = "Row" THEN <<"p", ".", "dto", ".", "v1">> ELSE <<"p">>,
         classes |->
            CASE name = "Svc" ->
                    <<[name |-> <<"Svc">>,
                       fields |-> <<[type |-> <<"Dao">>, name |-> "dao"]>>,
                       methods |->
                          <<method(<<"run", "()">>,
                                   <<"void", "run", "()", "{",
                                     "dao", ".", "find", "All", "()", "}">>,
                                   FALSE),
                            method(<<"getById", "(Long)">>,
                                   <<"Svc", "getById", "(Long id)", "{", "}">>, FALSE)>>]>>
              [] name = "Dao" ->
                    <<[name |-> <<"Dao">>, fields |-> <<>>,
                       methods |-> <<method(<<"find", "()">>,
                                            <<"int", "find", "()", "{", "}">>, FALSE),
                                     method(<<"find", "All", "()">>,
                                            <<"int", "find", "All", "()", "{", "}">>,
                                            FALSE)>>]>>
              [] name = "DaoImpl" ->
                    <<[name |-> <<"Dao", "Impl">>, fields |-> <<>>,
                       methods |-> <<plain("find")>>]>>
              [] name = "Row" ->
                    <<[name |-> <<"Row">>, fields |-> <<>>,
                       methods |-> <<plain("of")>>]>>
              [] name = "Two" ->
                    <<[name |-> <<"First">>,
                       fields |-> <<[type |-> <<"int">>, name |-> "n"]>>,
                       methods |-> <<plain("one")>>],
                      [name |-> <<"Test", "Kit">>,
                       fields |-> <<[type |-> <<"int">>, name |-> "k"]>>,
                       methods |->
                          <<plain("ok"),
                            method(<<"foo", "(\\d+)">>,
                                   <<"matches", "foo", "(\\d+)", "{", "}">>,
                                   mode = "scan"),
                            plain("never")>>]>>]

\* _generate_impl_signatures (lines 302-319)
GenerateImplSignatures(class_signature_name) ==
    IF class_signature_name[Len(class_signature_name)] = "Impl"
    THEN <<class_signature_name>>
    ELSE <<class_signature_name, class_signature_name \o <<"Impl">>>>

\* _resolve_field_type_package (lines 321-367), without imports: the current
\* class for a basic type, else the type in the package of the current class
ResolveFieldTypePackage(field_type, class_signature_name) ==
    IF field_type \in {<<"String">>, <<"Integer">>, <<"Long">>}
    THEN class_signature_name
    ELSE SubSeq(class_signature_name, 1, LastDot(class_signature_name))
            \o field_type

\* _analyze_class_fields (lines 414-455): maps with the fields registered,
\* and the field names
RECURSIVE AnalyzeClassFields(_, _, _)
AnalyzeClassFields(st, fields, class_signature_name) ==
    IF fields = <<>> THEN [st |-> st, field_names |-> <<>>]
    ELSE LET field == Head(fields)
             owners == GenerateImplSignatures(
                          ResolveFieldTypePackage(field.type, class_signature_name))
             names == [i \in 1..Len(owners) |-> owners[i] \o <<".", field.name>>]
             record(i) == [field_class_signature_name |-> owners[i],
                           field_name |-> field.name,
                           field_signature_name |-> names[i],
                           field_source_code |-> field.type \o <<field.name, ";">>]
             first == Put(st.field_signatures, names[1], record(1))
             both == IF Len(owners) = 2 THEN Put(first, names[2], record(2)) ELSE first
             rest == AnalyzeClassFields([st EXCEPT !.field_signatures = both],
                                        Tail(fields), class_signature_name)
         IN  [st |-> rest.st, field_names |-> names \o rest.field_names]

\* _analyze_method_field_usage (lines 981-995): the field names whose simple
\* name is a word of the method's code
AnalyzeMethodFieldUsage(method_code, field_names) ==
    SelectSeq(field_names, LAMBDA f : f[Len(f)] \in Range(method_code))

\* the body of the loop of _analyze_class_methods for one method that was
\* scanned (lines 466-493): it is registered under the class and its alias,
\* unless a method keyword is in the lower-cased name (lines 471-480)
RegisterMethodListed(acc, method, owners, field_names) ==
    LET kept == SelectSeq([i \in 1..Len(owners) |-> owners[i] \o <<".">> \o method.sig],
                          LAMBDA n : \A kw \in MethodFilterKeywords :
                                        ~Contains(Lower(n), kw))
        record(n) == [class_signature_name |-> SubSeq(n, 1, Len(n) - Len(method.sig) - 1),
                      method_source_code |-> method.code,
                      usaged_fields |-> AnalyzeMethodFieldUsage(method.code, field_names),
                      usage_method_signature_name |-> <<>>]
        put(st, n) == [st EXCEPT
                          !.method_signatures = Put(@, n, record(n)),
                          !.method_order = IF n \in DOMAIN st.method_signatures
                                           THEN @ ELSE Append(@, n)]
        first == IF Len(kept) >= 1 THEN put(acc.st, kept[1]) ELSE acc.st
        both == IF Len(kept) = 2 THEN put(first, kept[2]) ELSE first
    IN  [st |-> both,
         method_names |-> acc.method_names
                            \o [i \in 1..Len(owners) |-> owners[i] \o <<".">> \o method.sig],
         raised |-> FALSE]

RegisterMethod(acc, method, owners, field_names) ==
    LET kept == SelectSeq([i \in 1..Len(owners) |-> owners[i] \o <<".">> \o method.sig],
                          LAMBDA n : \A kw \in MethodFilterKeywords :
                                        ~Contains(Lower(n), kw))
        record(n) == [class_signature_name |-> SubSeq(n, 1, Len(n) - Len(method.sig) - 1),
                      method_source_code |-> method.code,
                      usaged_fields |-> AnalyzeMethodFieldUsage(method.code, field_names),
                      usage_method_signature_name |-> <<>>]
        put(st, n) == [st EXCEPT
                          !.method_signatures = Put(@, n, record(n)),
                          !.method_order = IF n \in DOMAIN st.method_signatures
                                           THEN @ ELSE Append(@, n)]
        first == IF Len(kept) >= 1 THEN put(acc.st, kept[1]) ELSE acc.st
        both == IF Len(kept) = 2 THEN put(first, kept[2]) ELSE first
    IN  [st |-> both, method_names |-> acc.method_names \o kept, raised |-> FALSE]

\* _analyze_class_methods (lines 457-495); raised tells that
\* _extract_method_signature (line 463) raised and the loop was left
RECURSIVE AnalyzeClassMethods(_, _, _, _)
AnalyzeClassMethods(acc, methods, class_signature_name, field_names) ==
    IF methods = <<>> THEN acc
    ELSE IF Head(methods).raises THEN [acc EXCEPT !.raised = TRUE]
    ELSE AnalyzeClassMethods(
            RegisterMethod(acc, Head(methods),
                           GenerateImplSignatures(class_signature_name), field_names),
            Tail(methods), class_signature_name, field_names)

\* _extract_simple_method_signature_names (lines 526-565), for one name
SimpleMethodName(method_name) ==
    SubSeq(method_name, LastDot(method_name) + 1, Len(method_name) - 1)

\* the class definition with an empty body (lines 567-596)
SimpleClassSource(class_name) == <<<<"public class">> \o class_name \o <<"{">>, <<"}">>>>

\* _create_class_signature (lines 507-524)
CreateClassSignature(st, class_signature_name, class_name, field_names, method_names, class_path) ==
    [st EXCEPT !.class_signatures =
        Put(@, class_signature_name,
            [class_signature_name |-> class_signature_name,
             class_source_code |-> SimpleClassSource(class_name),
             field_signature_name |-> field_names,
             method_signature_name |-> method_names,
             simple_method_signature_name_map |->
                [n \in Range(method_names) |-> SimpleMethodName(n)],
             class_path |-> class_path])]

\* lines 375-385
ClassFiltered(package_name, class_signature_name, config) ==
    \/ \E kw \in Range(config.PACKAGE_FILTER_KEYWORDS) : Contains(Lower(package_name), kw)
    \/ \E kw \in Range(config.CLASS_FILTER_KEYWORDS) : Contains(Lower(class_signature_name), kw)

\* _analyze_single_class (lines 369-410)
AnalyzeSingleClass(st, file, class, config) ==
    LET class_signature_name == file.package_name \o <<".">> \o class.name
        fields == AnalyzeClassFields(st, class.fields, class_signature_name)
        methods == AnalyzeClassMethods(
                      [st |-> fields.st, method_names |-> <<>>, raised |-> FALSE],
                      class.methods, class_signature_name, fields.field_names)
    IN  IF ClassFiltered(file.package_name, class_signature_name, config)
        THEN [st |-> st, raised |-> FALSE]
        ELSE IF methods.raised THEN [st |-> methods.st, raised |-> TRUE]
        ELSE [st |-> CreateClassSignature(methods.st, class_signature_name, class.name,
                                          fields.field_names, methods.method_names,
                                          file.class_path),
              raised |-> FALSE]

\* the loop over the classes of a file (lines 266-267), left when one raises
RECURSIVE AnalyzeClasses(_, _, _, _)
AnalyzeClasses(st, file, classes, config) ==
    IF classes = <<>> THEN st
    ELSE LET one == AnalyzeSingleClass(st, file, Head(classes), config)
         IN  IF one.raised THEN one.st
             ELSE AnalyzeClasses(one.st, file, Tail(classes), config)

\* _analyze_java_file (lines 236-270): whatever is raised is logged
AnalyzeJavaFile(st, file, config) ==
    IF ~file.readable THEN st ELSE AnalyzeClasses(st, file, file.classes, config)

\* the walk of analyze_project (lines 166-170)
RECURSIVE AnalyzeFiles(_, _, _)
AnalyzeFiles(st, tree, config) ==
    IF tree = <<>> THEN st
    ELSE AnalyzeFiles(AnalyzeJavaFile(st, Head(tree), config), Tail(tree), config)

\* _analyze_method_method_usage (lines 997-1035)
AnalyzeMethodMethodUsage(st, method_code, usaged_fields) ==
    LET calls(f) ==
            IF f \notin DOMAIN st.field_signatures THEN <<>>
            ELSE LET owner == st.field_signatures[f].field_class_signature_name
                     field_name == st.field_signatures[f].field_name
                 IN  IF owner \notin DOMAIN st.class_signatures THEN <<>>
                     ELSE SelectSeq(st.class_signatures[owner].method_signature_name,
                             LAMBDA n : Contains(method_code,
                                                 <<field_name, ".">> \o SimpleMethodName(n)))
    IN  Flatten([i \in 1..Len(usaged_fields) |-> calls(usaged_fields[i])])

\* lines 189-199
UpdateUsagesAndFields(st) ==
    LET ms == st.method_signatures
    IN  [st EXCEPT !.method_signatures =
            [n \in DOMAIN ms |->
                [ms[n] EXCEPT !.usage_method_signature_name =
                                  AnalyzeMethodMethodUsage(st, ms[n].method_source_code,
                                                           ms[n].usaged_fields),
                              !.usaged_fields = <<>>]]]

UpdateUsages(st) ==
    LET ms == st.method_signatures
    IN  [st EXCEPT !.method_signatures =
            [n \in DOMAIN ms |->
                [ms[n] EXCEPT !.usage_method_signature_name =
                    AnalyzeMethodMethodUsage(st, ms[n].method_source_code,
                                             ms[n].usaged_fields)]]]

\* _build_method_name_index (lines 1160-1173); a list of keys is kept as
\* the set of its members
BuildMethodNameIndex(method_signatures) ==
    LET owner(n) == SubSeq(n, 1, LastDot(n) - 1)
    IN  [c \in {owner(n) : n \in DOMAIN method_signatures} |->
            {n \in DOMAIN method_signatures : owner(n) = c}]

\* _build_class_method_index (lines 1187-1198)
BuildClassMethodIndex(class_signatures) ==
    [c \in DOMAIN class_signatures |-> Range(class_signatures[c].method_signature_name)]

\* lines 156-158: the three maps are emptied
ClearSignaturesKeep(ix) ==
    [class_signatures |-> ix.class_signatures,
     method_signatures |-> ix.method_signatures,
     field_signatures |-> ix.field_signatures,
     method_order |-> ix.method_order]

ClearSignatures(ix) ==
    [class_signatures |-> EmptyDict, method_signatures |-> EmptyDict,
     field_signatures |-> EmptyDict, method_order |-> <<>>]

\* the first pass of analyze_project (lines 141-184): the maps are emptied,
\* the files scanned and the indices built
IndexFiles(ix, tree) ==
    LET scanned == AnalyzeFiles(ClearSignatures(ix), tree, ix)
    IN  [ix EXCEPT !.class_signatures = scanned.class_signatures,
                   !.method_signatures = scanned.method_signatures,
                   !.field_signatures = scanned.field_signatures,
                   !.method_order = scanned.method_order,
                   !.method_name_index = BuildMethodNameIndex(scanned.method_signatures),
                   !.class_method_index = BuildClassMethodIndex(scanned.class_signatures)]

\* analyze_project (lines 141-205): the first pass, then the usage pass
AnalyzeProjectResult(ix, tree) == UpdateUsages(IndexFiles(ix, tree))

\* JavaProjectAnalyzer.__init__ (lines 44-138), the keyword lists read from
\* the environment
NewIndexer(package_keywords, class_keywords) ==
    [class_signatures |-> EmptyDict, method_signatures |-> EmptyDict,
     field_signatures |-> EmptyDict, method_order |-> <<>>,
     method_name_index |-> EmptyDict, class_method_index |-> EmptyDict,
     PACKAGE_FILTER_KEYWORDS |-> package_keywords,
     CLASS_FILTER_KEYWORDS |-> class_keywords]

\* the keyword lists (lines 129-134): none, two of the defaults, and these
\* with one that leaves implementation classes out
FilterConfigs ==
    {<<<<>>, <<>>>>,
     <<<<<<".", "dto", ".">>>>, <<<<".", "test">>>>>>,
     <<<<<<".", "dto", ".">>>>, <<<<".", "test">>, <<"impl">>>>>>}

\* the trees analyze_project is called on: os.walk lists the files of a tree
\* in one order
ProjectTrees ==
    LET FileOrder == <<"Dao", "DaoImpl", "Row", "Svc", "Two">>
        FileModes(name) ==
            CASE name = "Svc" -> {"ok", "read"}
              [] name = "Two" -> {"ok", "scan"}
              [] OTHER -> {"ok"}
        Choices ==
            UNION {{<<S, m>> : m \in {f \in [S -> {"ok", "read", "scan"}] :
                                        \A n \in S : f[n] \in FileModes(n)}} :
                   S \in {T \in SUBSET Range(FileOrder) : Cardinality(T) <= MaxFiles}}
    IN  {LET names == SelectSeq(FileOrder, LAMBDA n : n \in choice[1])
         IN  [i \in 1..Len(names) |-> JavaFile(names[i], choice[2][names[i]])] :
            choice \in Choices}

\* the snapshot as save_and_analysis_to_json writes it (lines 1220-1254)
SavedSnapshot(ix) ==
    [class_signatures |-> ix.class_signatures,
     method_signatures |-> ix.method_signatures,
     field_signatures |-> ix.field_signatures]

IndexInit ==
    /\ \E config \in FilterConfigs : indexer = NewIndexer(config[1], config[2])
    /\ project = <<>>
    /\ analyses = 0
    /\ analysis_data = SavedSnapshot(NewIndexer(<<>>, <<>>))
    /\ caller_mapping = EmptyDict
    /\ pc = "new"
    /\ op = "none"
    /\ start = SigA
    /\ max_depth = 0
    /\ max_in = 0
    /\ queue = <<>>
    /\ visited = {}
    /\ chain = EmptyDict
    /\ result = EmptyDict
    /\ ppc = "off"
    /\ changed_methods = EmptyDict
    /\ method_calls = EmptyDict
    /\ code_context = EmptyDict
    /\ prompts = EmptyDict
    /\ changes = <<>>
    /\ cursor = 0
    /\ pmd_report = EmptyDict
    /\ ToolsIdle

\* a call of analyze_project, up to the usage pass (lines 141-186)
AnalyzeProject ==
    \E tree \in ProjectTrees :
        /\ ipc = "idle"
        /\ analyses < MaxAnalyses
        /\ indexer' = IndexFiles(indexer, tree)
        /\ project' = tree
        /\ ipc' = "indexed"
        /\ UNCHANGED analyses
        /\ UNCHANGED <<analyzerVars, pipelineVars, extractVars, levelVars, build, sideVars>>

\* the usage pass of the call and its return (lines 187-205)
AnalyzeUsages ==
    /\ ipc = "indexed"
    /\ indexer' = UpdateUsages(indexer)
    /\ ipc' = "idle"
    /\ analyses' = analyses + 1
    /\ UNCHANGED project
    /\ UNCHANGED <<analyzerVars, pipelineVars, extractVars, levelVars, build, sideVars>>

\* the snapshot is saved and a MethodCallAnalyzer constructed from the file
\* (method_call_analyzer.py lines 11-53)
NewAnalyzerOnIndex ==
    /\ analyses > 0
    /\ ipc = "idle"
    /\ analysis_data' = SavedSnapshot(indexer)
    /\ caller_mapping' =
          BuildCallerMappingFrom(indexer.method_signatures, indexer.method_order, EmptyDict)
    /\ pc' = "ready"
    /\ UNCHANGED <<op, start, max_depth, max_in, queue, visited, chain, result>>
    /\ UNCHANGED <<pipelineVars, extractVars, toolVars>>

IndexNext == AnalyzeProject \/ AnalyzeUsages \/ NewAnalyzerOnIndex

SpecIndex == IndexInit /\ [][IndexNext]_vars

(***************************************************************************)
(* Reference notions the claims are stated with, taken from the usage      *)
(* edges alone.                                                            *)
(***************************************************************************)
Callees(m) ==
    IF m \in DOMAIN analysis_data.method_signatures THEN Range(UsedMethods(m)) ELSE {}

Successors(S) == UNION {Callees(m) : m \in S}

Predecessors(S) == {m \in DOMAIN analysis_data.method_signatures : Callees(m) \cap S # {}}

\* the signatures at shortest distance k from s, forwards or backwards
RECURSIVE Layer(_, _, _)
Layer(s, k, forward) ==
    IF k = 0 THEN {s}
    ELSE LET prev == Layer(s, k - 1, forward)
             near == UNION {Layer(s, j, forward) : j \in 0..(k - 1)}
         IN  (IF forward THEN Successors(prev) ELSE Predecessors(prev)) \ near

Bucket(ch, k) == IF k \in DOMAIN ch THEN ch[k] ELSE <<>>

NoDuplicates(list) == \A i, j \in 1..Len(list) : list[i] = list[j] => i = j

FlatDone == pc = "done" /\ op \in {"depth", "height"}

\* C1: in the result of a flat traversal every signature is in at most one
\* bucket, at most once in it, and the start signature is in bucket 0
C1_CycleSafety ==
    FlatDone =>
        /\ \A k \in DOMAIN result : NoDuplicates(result[k])
        /\ \A k1, k2 \in DOMAIN result :
              k1 # k2 => Range(result[k1]) \cap Range(result[k2]) = {}
        /\ start \in Range(Bucket(result, 0))

\* a traversal over mutual recursion through the start signature has returned
C1_Witness ==
    /\ FlatDone
    /\ op = "depth"
    /\ max_depth = MaxDepth
    /\ \E m \in Callees(start) : m # start /\ start \in Callees(m)

\* C2: a flat traversal in its loop eventually empties its queue and returns
C2_Termination == (pc = "loop") ~> (pc = "done" /\ queue = <<>>)

\* a backward traversal from a directly recursive method has returned
C2_Witness ==
    /\ FlatDone
    /\ op = "height"
    /\ max_depth >= 1
    /\ start \in Callees(start)

\* C3: bucket k of the forward traversal is exactly the set of signatures at
\* shortest usage-edge distance k from the start, for 0 <= k <= max_depth,
\* and there is no bucket beyond max_depth
C3_ForwardLayering ==
    (FlatDone /\ op = "depth") =>
        /\ \A k \in 0..max_depth : Range(Bucket(result, k)) = Layer(start, k, TRUE)
        /\ DOMAIN result \subseteq 0..max_depth

\* a forward traversal was cut at max_depth with signatures further away
C3_Witness ==
    /\ FlatDone
    /\ op = "depth"
    /\ max_depth >= 1
    /\ Layer(start, max_depth + 1, TRUE) # {}

\* C4: bucket k of the backward traversal is exactly the set of signatures at
\* shortest distance k to the start along usage edges, for 0 <= k <= max_height,
\* and there is no bucket beyond max_height
C4_BackwardLayering ==
    (FlatDone /\ op = "height") =>
        /\ \A k \in 0..max_depth : Range(Bucket(result, k)) = Layer(start, k, FALSE)
        /\ DOMAIN result \subseteq 0..max_depth

\* a backward traversal from a method with two other callers has returned
C4_Witness ==
    /\ FlatDone
    /\ op = "height"
    /\ max_depth >= 1
    /\ Cardinality(Predecessors({start}) \ {start}) = 2

\* C5: once the caller mapping is built, N is used by M exactly when M is
\* listed under caller_mapping[N] (no key counting as the empty list)
C5_InverseConsistency ==
    pc # "new" =>
        \A M, N \in AllSigs : (N \in Callees(M)) <=> (M \in Range(CallersGet(caller_mapping, N)))

\* the mapping is built and some method has two distinct callers
C5_Witness ==
    /\ pc = "ready"
    /\ \E N \in AllSigs : Cardinality(Range(CallersGet(caller_mapping, N))) >= 2

\* C6: a query whose start signature is no key of method_signatures raises,
\* whichever of the four queries it is, and returns nothing
C6_UnknownStart ==
    (op # "none" /\ start \notin DOMAIN analysis_data.method_signatures) =>
        /\ pc = "raised"
        /\ result = EmptyDict

\* get_complete_method_relationship was asked about a signature that is not
\* in the snapshot, and raised
C6_Witness ==
    /\ pc = "raised"
    /\ start = SigX
    /\ op = "complete"

\* the signatures reached by following the calls_out nesting from the root
RECURSIVE FollowCallsOut(_)
FollowCallsOut(tree) ==
    DOMAIN tree \cup UNION {FollowCallsOut(tree[k].calls_out) : k \in DOMAIN tree}

FlatForwardBeyondStart(s, max) ==
    LET ch == BfsRun(StartState(s), "depth", max).chain
    IN  UNION {Range(ch[k]) : k \in DOMAIN ch \ {0}}

\* C7: the signatures reached through the calls_out nesting of the nested
\* relationship are those the forward traversal places at depths 1..maxOut
C7_NestedForwardView ==
    (pc = "done" /\ op = "nested" /\ max_depth >= 1) =>
        FollowCallsOut(result.calls_out) = FlatForwardBeyondStart(start, max_depth)

\* every signature of a nested graph, at any nesting level of either direction
RECURSIVE AllNested(_)
AllNested(tree) ==
    DOMAIN tree \cup UNION {AllNested(tree[k].calls_out) \cup AllNested(tree[k].calls_in) :
                             k \in DOMAIN tree}

GraphSignatures(entry) == AllNested(entry.calls_out) \cup AllNested(entry.calls_in)

ContainsText(text, part) == Range(part) \subseteq Range(text)

ClassNameOf(sig) == analysis_data.method_signatures[sig].class_signature_name

ContextWritten == ppc \in {"stage6", "returned", "none"}

\* C8: every indexed signature of the call-graph entry of a changed signature
\* has its source in the bundle of that signature, under its declaring class
C8_ContextCompleteness ==
    ContextWritten =>
        \A idx \in DOMAIN code_context : \A s \in DOMAIN code_context[idx] :
            \A t \in GraphSignatures(method_calls[idx][s]) :
                t \in DOMAIN analysis_data.method_signatures =>
                    /\ ClassNameOf(t) \in DOMAIN code_context[idx][s]
                    /\ ContainsText(code_context[idx][s][ClassNameOf(t)],
                                    analysis_data.method_signatures[t].method_source_code)

\* C9: the bundle of every signature of the call-graph map has a 'self' entry
\* holding the source of the signature and of the methods of its own class
\* that it uses
C9_SelfEntry ==
    ContextWritten =>
        \A idx \in DOMAIN method_calls : \A s \in DOMAIN method_calls[idx] :
            /\ idx \in DOMAIN code_context
            /\ s \in DOMAIN code_context[idx]
            /\ SelfKey \in DOMAIN code_context[idx][s]
            /\ ContainsText(code_context[idx][s][SelfKey],
                            analysis_data.method_signatures[s].method_source_code)
            /\ \A t \in Callees(s) :
                  ClassNameOf(t) = ClassNameOf(s) =>
                      ContainsText(code_context[idx][s][SelfKey],
                                   analysis_data.method_signatures[t].method_source_code)

\* a change one of whose signatures the call-graph query accepts
Analysable(idx) ==
    \E t \in Range(changed_methods[idx].method_signatures) :
        t \in DOMAIN analysis_data.method_signatures

\* C10: when items fail (a changed signature is not in the index), the run
\* still returns prompts instead of nothing: every change that has a
\* signature in the index has its prompt in the result
C10_GracefulDegradation ==
    (ppc \in {"returned", "none"} /\ \E idx \in DOMAIN changed_methods : Analysable(idx)) =>
        /\ ppc = "returned"
        /\ \A idx \in DOMAIN changed_methods : Analysable(idx) => idx \in DOMAIN prompts

(***************************************************************************)
(* Stage 3 and stage 3.2.                                                  *)
(***************************************************************************)
\* C11: every signature the extractor lists for a change is a key of
\* method_signatures of the snapshot it was given
C11_IndexMembership ==
    ppc \in {"stage3", "stage3.2"} =>
        \A idx \in DOMAIN changed_methods :
            \A sig \in Range(changed_methods[idx].method_signatures) :
                sig \in DOMAIN analysis_data.method_signatures

\* the new view of a change: its context and added lines that are kept
NewViewLines(change) ==
    {k \in 1..Len(change.diff) :
        change.diff[k].mark # "-" /\ change.diff[k].text # LineImport}

\* the new view declares a method, in a file of the workspace whose class
\* the snapshot holds with its methods
HasResolvedSignature(change) ==
    /\ \E k \in NewViewLines(change) : change.diff[k].text \in {LineA, LineG}
    /\ change.new_path \in WorkspaceFiles
    /\ \E cls \in DOMAIN analysis_data.class_signatures :
          /\ analysis_data.class_signatures[cls].class_path = change.new_path
          /\ analysis_data.class_signatures[cls].method_signature_name # <<>>

KeptChange(change) ==
    /\ change.new_path[Len(change.new_path)] = ".java"
    /\ NewViewLines(change) # {}
    /\ HasResolvedSignature(change)

C13_PmdExclusion ==
    (ppc = "stage4" /\ pmd_report # EmptyDict) =>
        \A idx \in DOMAIN changed_methods :
            Range(changed_methods[idx].method_signatures)
                \cap SkipMethodSignatures(pmd_report) = {}

(***************************************************************************)
(* PMDReportFormatter.filter_by_level and the levels of PMDCheckPlugin.    *)
(***************************************************************************)
\* webhook_data['project']['name'] (pmd_report_formatter.py line 59)
ProjectName == "proj"

\* get_project_level / get_change_level (pmd_check_plugin.py lines 35-81,
\* 84-130) on the settings of their family: the lists of projects of each
\* level, then the default level, upper-cased, HIGH when it is no level
GetLevel(settings, project_name) ==
    LET upper == IF settings.DEFAULT = "middle" THEN "MIDDLE" ELSE settings.DEFAULT
        default_level_num ==
            CASE upper = "HIGH" -> 1
              [] upper = "MIDDLE" -> 2
              [] upper = "LOW" -> 3
              [] OTHER -> 1
    IN  IF project_name \in settings.HIGH THEN 1
        ELSE IF project_name \in settings.MIDDLE THEN 2
        ELSE IF project_name \in settings.LOW THEN 3
        ELSE default_level_num

\* pmd_report_formatter.py line 78
RetainsBelow(priority, current_level) == priority < current_level

Retains(priority, current_level) == priority <= current_level

\* the body of the loop over the files (lines 67-79): the file with the
\* violations it keeps
FilterViolations(file_info, project_level, change_level) ==
    LET in_change == IF "in_change" \in DOMAIN file_info THEN file_info.in_change
                     ELSE FALSE
        current_level == IF in_change THEN change_level ELSE project_level
        priority(violation) == IF "priority" \in DOMAIN violation
                               THEN violation.priority ELSE 5
    IN  [file_info EXCEPT !.violations =
            SelectSeq(@, LAMBDA v : Retains(priority(v), current_level))]

\* filter_by_level (lines 57-87)
FilterByLevel(report_data, env) ==
    LET project_level == GetLevel(env.PROJECT, ProjectName)
        change_level == GetLevel(env.CHANGE, ProjectName)
        files == report_data.files
    IN  [report_data EXCEPT !.files =
            SelectSeq([i \in 1..Len(files) |->
                          FilterViolations(files[i], project_level, change_level)],
                      LAMBDA f : f.violations # <<>>)]

\* no analyzer has been constructed and no stage is running
PipelineIdle ==
    /\ analysis_data = Snapshot(<<>>)
    /\ caller_mapping = EmptyDict
    /\ pc = "new"
    /\ op = "none"
    /\ start = SigA
    /\ max_depth = 0
    /\ max_in = 0
    /\ queue = <<>>
    /\ visited = {}
    /\ chain = EmptyDict
    /\ result = EmptyDict
    /\ ppc = "off"
    /\ changed_methods = EmptyDict
    /\ method_calls = EmptyDict
    /\ code_context = EmptyDict
    /\ prompts = EmptyDict
    /\ changes = <<>>
    /\ cursor = 0

\* the report is loaded (lines 29-38).  Its files are marked in the change
\* or not (or not marked) and have no violation, the priorities 1 to 4, two
\* out of order, one, or a violation that has no priority; the settings of a
\* family are a default alone, or lists that name the project
LevelInit ==
    LET v(p) == [rule |-> "r", priority |-> p]
        LevelFiles ==
            [filename : {"F.java"}, in_change : BOOLEAN,
             violations : {<<>>, <<v(1), v(2), v(3), v(4)>>, <<v(3), v(1)>>,
                           <<v(2)>>, <<v(4), [rule |-> "r"]>>}]
               \cup {[filename |-> "F.java", violations |-> <<v(3), v(1)>>]}
        LevelSettings ==
            [DEFAULT : {"HIGH", "middle", "LOW", "STRICT"},
             HIGH : {{}}, MIDDLE : {{}}, LOW : {{}}]
               \cup [DEFAULT : {"HIGH"}, HIGH : {{}}, MIDDLE : {{ProjectName}},
                     LOW : {{}, {ProjectName}}]
               \cup [DEFAULT : {"HIGH"}, HIGH : {{}, {ProjectName}}, MIDDLE : {{}},
                     LOW : {{ProjectName}}]
    IN
    /\ pmd_report \in [files : SeqsUpTo(LevelFiles, MaxReportFiles)]
    /\ p3c_env \in [PROJECT : LevelSettings, CHANGE : LevelSettings]
    /\ pmd_report_data = pmd_report
    /\ fpc = "loaded"
    /\ build = EmptyDict
    /\ PipelineIdle
    /\ indexer = EmptyDict
    /\ project = <<>>
    /\ analyses = 0
    /\ SideIdle

\* the call of filter_by_level (line 41)
FilterByLevelCall ==
    /\ fpc = "loaded"
    /\ pmd_report_data' = FilterByLevel(pmd_report_data, p3c_env)
    /\ fpc' = "filtered"
    /\ UNCHANGED <<p3c_env, build, indexVars, extractVars, analyzerVars, pipelineVars, sideVars>>

SpecLevel == LevelInit /\ [][FilterByLevelCall]_vars

(***************************************************************************)
(* One call of _build_class_source_code on a snapshot whose class C has    *)
(* any of the skeletons below, and whose methods and field have sources    *)
(* with and without braces.                                                *)
(***************************************************************************)
AssembleSnapshots ==
    LET Skeletons == {<<"class C {", "}">>, <<"class C {", "}", "">>,
                      <<"class C {", "}  ">>, <<"class C {}">>, <<"class C {">>,
                      <<"class C {", "}", "// end">>, <<" ">>, <<>>}
        FieldSources == {<<"private D d;">>, <<"@Resource", "", "private D d;">>,
                         <<"private Runnable d = () -> { go();">>}
        SourcesA == {<<SigA>>, <<"void a() {", "}">>}
        SourcesB == {<<SigB>>, <<"void b() {">>}
        base == Snapshot(<<>>)
    IN  {[base EXCEPT !.class_signatures[ClassC].class_source_code = skeleton,
                      !.field_signatures[FieldF].field_source_code = field,
                      !.method_signatures[SigA].method_source_code = a,
                      !.method_signatures[SigB].method_source_code = b] :
            skeleton \in Skeletons, field \in FieldSources,
            a \in SourcesA, b \in SourcesB}

AssembleInit ==
    /\ analysis_data \in AssembleSnapshots
    /\ build \in [state : {"called"}, class_signature_name : Classes,
                  method_signatures : SeqsUpTo(AllSigs, MaxGrouped),
                  combined_source : {<<>>}]
    /\ caller_mapping = EmptyDict
    /\ pc = "new"
    /\ op = "none"
    /\ start = SigA
    /\ max_depth = 0
    /\ max_in = 0
    /\ queue = <<>>
    /\ visited = {}
    /\ chain = EmptyDict
    /\ result = EmptyDict
    /\ ppc = "off"
    /\ changed_methods = EmptyDict
    /\ method_calls = EmptyDict
    /\ code_context = EmptyDict
    /\ prompts = EmptyDict
    /\ changes = <<>>
    /\ cursor = 0
    /\ pmd_report = EmptyDict
    /\ indexer = EmptyDict
    /\ project = <<>>
    /\ analyses = 0
    /\ pmd_report_data = EmptyDict
    /\ p3c_env = EmptyDict
    /\ fpc = "off"
    /\ SideIdle

\* _build_class_source_code returns (line 237)
BuildReturn ==
    /\ build.state = "called"
    /\ build' = [build EXCEPT
                    !.state = "returned",
                    !.combined_source = BuildClassSourceCode(build.class_signature_name,
                                                             build.method_signatures)]
    /\ UNCHANGED <<analyzerVars, pipelineVars, extractVars, indexVars, levelVars, sideVars>>

SpecAssemble == AssembleInit /\ [][BuildReturn]_vars

(***************************************************************************)
(* The indexer's claims, stated with what the files of a tree declare.     *)
(***************************************************************************)
ClassNamesOf(file) ==
    {file.package_name \o <<".">> \o c.name : c \in Range(file.classes)}

\* the keys under which the methods of a file are to be found: each method
\* under its class and under the class's Impl alias
MethodNamesOf(file) ==
    UNION {{owner \o <<".">> \o m.sig :
                owner \in {file.package_name \o <<".">> \o c.name,
                           file.package_name \o <<".">> \o c.name \o <<"Impl">>},
                m \in Range(c.methods)} : c \in Range(file.classes)}

\* the field names of a file: each field under the class of its type in
\* the file's package, and under that class's Impl alias
FieldNamesOf(file) ==
    UNION {{file.package_name \o <<".">> \o f.type \o suffix \o <<".", f.name>> :
                suffix \in {<<>>, <<"Impl">>}, f \in Range(c.fields)} :
           c \in Range(file.classes)}

\* analyze_project has returned at least once and is not in progress
Analysed == analyses > 0 /\ ipc = "idle"

\* C14: after analyze_project every class of class_signatures whose name
\* does not end in Impl has its Impl alias in class_signatures too, and a
\* class whose name ends in Impl has none
C14_ImplAliasing ==
    Analysed =>
        \A c \in DOMAIN indexer.class_signatures :
            IF c[Len(c)] # "Impl"
            THEN c \o <<"Impl">> \in DOMAIN indexer.class_signatures
            ELSE c \o <<"Impl">> \notin DOMAIN indexer.class_signatures

\* a file of the tree whose reading or scanning raises
FileFails(file) ==
    \/ ~file.readable
    \/ \E c \in Range(file.classes) :
          /\ ~ClassFiltered(file.package_name, file.package_name \o <<".">> \o c.name,
                            indexer)
          /\ \E m \in Range(c.methods) : m.raises

\* C15: after a pass in which a file raised, every other file is indexed
\* and no entry of the three maps stems from the file that raised
C15_FailureIsolation ==
    Analysed =>
        \A i \in 1..Len(project) :
            LET file == project[i]
                others == {project[j] : j \in (1..Len(project)) \ {i}}
            IN  IF FileFails(file)
                THEN /\ \A c \in DOMAIN indexer.class_signatures :
                            indexer.class_signatures[c].class_path # file.class_path
                     /\ DOMAIN indexer.method_signatures \cap MethodNamesOf(file)
                            \subseteq UNION {MethodNamesOf(o) : o \in others}
                     /\ DOMAIN indexer.field_signatures \cap FieldNamesOf(file)
                            \subseteq UNION {FieldNamesOf(o) : o \in others}
                ELSE \A c \in ClassNamesOf(file) :
                        ~ClassFiltered(file.package_name, c, indexer)
                            => c \in DOMAIN indexer.class_signatures

\* a name that the configured keywords exclude: its package part holds a
\* package keyword or the whole name holds a class keyword (lower-cased)
NameExcluded(class_signature_name) ==
    ClassFiltered(SubSeq(class_signature_name, 1, LastDot(class_signature_name) - 1),
                  class_signature_name, indexer)

\* C16: after analyze_project no class that the keywords exclude is a key of
\* class_signatures and no key of method_signatures is a method of such a
\* class
C16_KeywordFiltering ==
    Analysed =>
        /\ \A c \in DOMAIN indexer.class_signatures : ~NameExcluded(c)
        /\ \A m \in DOMAIN indexer.method_signatures :
              ~NameExcluded(indexer.method_signatures[m].class_signature_name)

\* C20: after any sequence of analyze_project calls the three maps and the
\* two name indices hold only what the files of the latest tree declare,
\* and a caller mapping holds only the calls of the snapshot its
\* MethodCallAnalyzer was constructed from
C20_RebuildFromScratch ==
    /\ DOMAIN indexer.class_signatures
          \subseteq UNION {ClassNamesOf(project[i]) : i \in 1..Len(project)}
    /\ DOMAIN indexer.method_signatures
          \subseteq UNION {MethodNamesOf(project[i]) : i \in 1..Len(project)}
    /\ DOMAIN indexer.field_signatures
          \subseteq UNION {FieldNamesOf(project[i]) : i \in 1..Len(project)}
    /\ UNION {indexer.method_name_index[c] : c \in DOMAIN indexer.method_name_index}
          = DOMAIN indexer.method_signatures
    /\ DOMAIN indexer.class_method_index = DOMAIN indexer.class_signatures
    /\ \A c \in DOMAIN indexer.class_method_index :
          indexer.class_method_index[c] \subseteq DOMAIN indexer.method_signatures
    /\ \A called \in DOMAIN caller_mapping :
          \A caller \in Range(caller_mapping[called]) :
              /\ caller \in DOMAIN analysis_data.method_signatures
              /\ called \in Range(analysis_data.method_signatures[caller]
                                      .usage_method_signature_name)

\* a second call on another tree has replaced an index from which a
\* MethodCallAnalyzer with callers was constructed
C20_Witness ==
    /\ analyses = 2
    /\ pc = "ready"
    /\ caller_mapping # EmptyDict
    /\ indexer.class_signatures # EmptyDict
    /\ DOMAIN indexer.class_signatures \cap DOMAIN analysis_data.class_signatures = {}

\* the threshold that applies to a file of the report
Threshold(file) ==
    IF "in_change" \in DOMAIN file /\ file.in_change
    THEN GetLevel(p3c_env.CHANGE, ProjectName)
    ELSE GetLevel(p3c_env.PROJECT, ProjectName)

\* C17: filter_by_level leaves, in their order, the files of the report that
\* have a violation of a priority no greater than their threshold, each with
\* exactly these violations in their order
C17_PriorityFilter ==
    fpc = "filtered" =>
        LET files == pmd_report.files
            kept(file) ==
                SelectSeq(file.violations,
                          LAMBDA v : "priority" \in DOMAIN v
                                        /\ v.priority <= Threshold(file))
        IN  pmd_report_data.files =
                SelectSeq([i \in 1..Len(files) |->
                              [files[i] EXCEPT !.violations = kept(files[i])]],
                          LAMBDA f : f.violations # <<>>)

\* the priorities 1 to 4 of a file in the change were filtered with the
\* threshold 2, and another file was left without violations
C17_Witness ==
    /\ fpc = "filtered"
    /\ Len(pmd_report.files) = 2
    /\ "in_change" \in DOMAIN pmd_report.files[1]
    /\ pmd_report.files[1].in_change
    /\ Len(pmd_report.files[1].violations) = 4
    /\ [i \in 1..4 |-> pmd_report.files[1].violations[i].priority] = <<1, 2, 3, 4>>
    /\ GetLevel(p3c_env.CHANGE, ProjectName) = 2
    /\ Len(pmd_report_data.files) = 1
    /\ Len(pmd_report_data.files[1].violations) = 2
    /\ [i \in 1..2 |-> pmd_report_data.files[1].violations[i].priority] = <<1, 2>>

(***************************************************************************)
(* The assembler's claims, stated with the braces of a text: no line of    *)
(* the texts at hand has more than one brace of a kind.                    *)
(***************************************************************************)
Opening(text) ==
    Len(SelectSeq(text, LAMBDA line :
            line \in {"class C {", "class D {", "class C {}", "void a() {",
                      "void b() {", "private Runnable d = () -> { go();"}))

Closing(text) ==
    Len(SelectSeq(text, LAMBDA line : line \in {"}", "}  ", "class C {}"}))

\* the text, trailing whitespace aside, ends with a closing brace
ClosedAtEnd(text) ==
    LET ink == SelectSeq(text, LAMBDA line : line \notin {"", " "})
    IN  ink # <<>> /\ ink[Len(ink)] \in {"}", "}  ", "class C {}"}

BuiltSkeleton ==
    analysis_data.class_signatures[build.class_signature_name].class_source_code

\* C18: for a skeleton with matching braces that ends with its closing brace
\* and grouped methods whose sources have matching braces, the source that
\* _build_class_source_code returns ends with one closing brace and has as
\* many closing as opening braces
C18_BalancedReconstruction ==
    (/\ build.state = "returned"
     /\ ClosedAtEnd(BuiltSkeleton)
     /\ Opening(BuiltSkeleton) = Closing(BuiltSkeleton)
     /\ \A m \in Range(build.method_signatures) \cap DOMAIN analysis_data.method_signatures :
           LET source == analysis_data.method_signatures[m].method_source_code
           IN  Opening(source) = Closing(source))
        => /\ build.combined_source # <<>>
           /\ build.combined_source[Len(build.combined_source)] \in {"}", "class C {}"}
           /\ Opening(build.combined_source) = Closing(build.combined_source)

\* C19: for a skeleton that, trailing whitespace aside, does not end with a
\* closing brace, _build_class_source_code returns the skeleton as it is
C19_MalformedSkeleton ==
    (build.state = "returned" /\ ~ClosedAtEnd(BuiltSkeleton))
        => build.combined_source = BuiltSkeleton

\* the call returned for a skeleton without its closing brace and a method
\* that has a source and uses a field
C19_Witness ==
    /\ build.state = "returned"
    /\ build.class_signature_name = ClassC
    /\ BuiltSkeleton = <<"class C {">>
    /\ SigA \in Range(build.method_signatures)
    /\ build.combined_source = <<"class C {">>

(***************************************************************************)
(* The nested view's claims on its calls_in nesting.                       *)
(***************************************************************************)
\* the signatures reached by following the calls_in nesting from the root
RECURSIVE FollowCallsIn(_)
FollowCallsIn(tree) ==
    DOMAIN tree \cup UNION {FollowCallsIn(tree[k].calls_in) : k \in DOMAIN tree}

\* the number of nesting levels of a calls_in nesting
RECURSIVE NestingLevels(_)
NestingLevels(tree) ==
    IF DOMAIN tree = {} THEN 0
    ELSE LET below == {NestingLevels(tree[k].calls_in) : k \in DOMAIN tree}
         IN  1 + CHOOSE n \in below : \A other \in below : other <= n

FlatBackwardBeyondStart(s, max) ==
    LET ch == BfsRun(StartState(s), "height", max).chain
    IN  UNION {Range(ch[k]) : k \in DOMAIN ch \ {0}}

NestedDone == pc = "done" /\ op = "nested"

\* C25: the signatures at any level of the calls_in nesting of the nested
\* relationship are those the backward traversal places at heights 1..maxIn,
\* and the nesting has at most maxIn levels
C25_NestedBackwardView ==
    (NestedDone /\ max_in >= 1) =>
        /\ FollowCallsIn(result.calls_in) = FlatBackwardBeyondStart(start, max_in)
        /\ NestingLevels(result.calls_in) <= max_in

\* no key of the nesting is among the signatures above it on its branch
RECURSIVE BranchSafe(_, _)
BranchSafe(tree, above) ==
    \A k \in DOMAIN tree :
        /\ k \notin above
        /\ BranchSafe(tree[k].calls_in, above \cup {k})
        /\ BranchSafe(tree[k].calls_out, above \cup {k})

\* C26: in a nested relationship no signature occurs twice along a branch
\* that starts at the start signature
C26_PerBranchCycleSafety ==
    NestedDone =>
        /\ BranchSafe(result.calls_in, {start})
        /\ BranchSafe(result.calls_out, {start})

(***************************************************************************)
(* The usage edges of the indexer.                                         *)
(***************************************************************************)
\* the code holds field.method followed by an opening parenthesis: in a
\* method source the parenthesis opens the piece after the name
CallsLiterally(method_code, field_name, method_signature_name) ==
    LET last == Len(method_signature_name)
        simple == SubSeq(method_signature_name, LastDot(method_signature_name) + 1, last - 1)
    IN  \E parameters \in {"()", "(Long)", "(Long id)", "(\\d+)"} :
            Contains(method_code, <<field_name, ".">> \o simple \o <<parameters>>)

\* C24: a method has a usage edge to N only if one of its used fields has a
\* declaring class that lists N and its code holds field.N( literally
C24_CallEdgeAnchoring ==
    Analysed =>
        \A m \in DOMAIN indexer.method_signatures :
            \A n \in Range(indexer.method_signatures[m].usage_method_signature_name) :
                \E f \in Range(indexer.method_signatures[m].usaged_fields) :
                    /\ f \in DOMAIN indexer.field_signatures
                    /\ LET field == indexer.field_signatures[f]
                           owner == field.field_class_signature_name
                       IN  /\ owner \in DOMAIN indexer.class_signatures
                           /\ n \in Range(indexer.class_signatures[owner].method_signature_name)
                           /\ CallsLiterally(indexer.method_signatures[m].method_source_code,
                                             field.field_name, n)

\* the usage pass is about to start: the maps hold what the scan of every
\* file of the tree gives, no usage is recorded yet and the indices are built
\* over all the keys
StructureIndexed ==
    LET scanned == AnalyzeFiles(NewIndexer(<<>>, <<>>), project, indexer)
    IN  /\ indexer.class_signatures = scanned.class_signatures
        /\ indexer.method_signatures = scanned.method_signatures
        /\ indexer.field_signatures = scanned.field_signatures
        /\ \A m \in DOMAIN indexer.method_signatures :
               indexer.method_signatures[m].usage_method_signature_name = <<>>
        /\ UNION {indexer.method_name_index[c] : c \in DOMAIN indexer.method_name_index}
               = DOMAIN indexer.method_signatures
        /\ DOMAIN indexer.class_method_index = DOMAIN indexer.class_signatures

\* what the usage pass leaves as it was
UsagePassFrame ==
    /\ indexer'.class_signatures = indexer.class_signatures
    /\ indexer'.field_signatures = indexer.field_signatures
    /\ DOMAIN indexer'.method_signatures = DOMAIN indexer.method_signatures
    /\ \A m \in DOMAIN indexer.method_signatures :
          LET before == indexer.method_signatures[m]
              after == indexer'.method_signatures[m]
          IN  /\ after.method_source_code = before.method_source_code
              /\ after.usaged_fields = before.usaged_fields
              /\ after.class_signature_name = before.class_signature_name
    /\ indexer'.method_name_index = indexer.method_name_index
    /\ indexer'.class_method_index = indexer.class_method_index

\* C27: the usage pass of analyze_project starts when every file is indexed
\* and the indices are built, and it changes nothing but the
\* usage_method_signature_name of the methods
C27_TwoPhaseConstruction ==
    /\ [](ipc = "indexed" => StructureIndexed)
    /\ [][(ipc = "indexed" /\ ipc' = "idle") => UsagePassFrame]_vars

\* the usage pass has recorded an edge for a method with a used field, on a
\* tree of two files
C27_Witness ==
    /\ Analysed
    /\ Len(project) = 2
    /\ \E m \in DOMAIN indexer.method_signatures :
          /\ indexer.method_signatures[m].usage_method_signature_name # <<>>
          /\ indexer.method_signatures[m].usaged_fields # <<>>

\* C30: after analyze_project every signature in a usage list and every
\* method key listed by a class is a key of method_signatures, and in the
\* snapshot an analyzer was constructed from, the callees of every key are keys
C30_UsageClosure ==
    /\ Analysed =>
          /\ \A m \in DOMAIN indexer.method_signatures :
                Range(indexer.method_signatures[m].usage_method_signature_name)
                    \subseteq DOMAIN indexer.method_signatures
          /\ \A c \in DOMAIN indexer.class_signatures :
                Range(indexer.class_signatures[c].method_signature_name)
                    \subseteq DOMAIN indexer.method_signatures
    /\ pc = "ready" =>
          Successors(DOMAIN analysis_data.method_signatures)
              \subseteq DOMAIN analysis_data.method_signatures

\* an analyzer was constructed on an index with a usage edge and with a class
\* one of whose methods the method keyword keeps out
C30_Witness ==
    /\ Analysed
    /\ pc = "ready"
    /\ analysis_data = SavedSnapshot(indexer)
    /\ Successors(DOMAIN analysis_data.method_signatures) # {}
    /\ \E c \in DOMAIN indexer.class_signatures :
          c[Len(c)] = "Svc" /\ Len(indexer.class_signatures[c].method_signature_name) = 2

(***************************************************************************)
(* JavaProjectAnalyzer: the text scans.  A text is the list of its pieces: *)
(* a word (a run of \w characters), a run of blanks, a line break, or a    *)
(* sign.  No pattern of the indexer can begin or end a match inside a      *)
(* piece of the texts at hand, so an offset is the number of a piece.      *)
(***************************************************************************)
\* largest number of parameters of a declaration
MaxParams == 2

IsWord(piece) ==
    piece \notin {" ", "\n", ",", "(", ")", "<", ">", "[", "]", ".", "...",
                  "{", "}", ";", "=", "//"}

\* the least offset from i on whose piece stops the run (one past the end
\* of the text when none does)
FirstAt(text, i, Stops(_)) ==
    CHOOSE j \in i..(Len(text) + 1) :
        /\ j = Len(text) + 1 \/ Stops(text[j])
        /\ \A k \in i..(j - 1) : ~Stops(text[k])

\* \s*
SkipBlanks(text, i) == FirstAt(text, i, LAMBDA piece : piece \notin {" ", "\n"})

\* the ways (?:public|private|protected)?\s*(?:static\s+)?(?:final\s+)?
\* [\w<>\[\]]+\s+\w+ matches at offset i (lines 78, 91, 102-106, 111, 112):
\* the offset of the word matched last, one for each way to take the
\* modifiers; the pattern prefers the way that takes most
DeclarationHeads(text, i) ==
    LET at(p) == IF p \in 1..Len(text) THEN text[p] ELSE ""
        blanks(S) == S \cup {SkipBlanks(text, p) : p \in S}
        keyword(S, word) ==
            S \cup {SkipBlanks(text, p + 1) :
                        p \in {q \in S : at(q) = word /\ at(q + 1) \in {" ", "\n"}}}
        access == {i} \cup (IF at(i) \in {"public", "private", "protected"}
                            THEN {i + 1} ELSE {})
        landings == keyword(keyword(blanks(access), "static"), "final")
        type_end(k) == FirstAt(text, k, LAMBDA piece :
                                  ~(IsWord(piece) \/ piece \in {"<", ">", "[", "]"}))
        name(k) == SkipBlanks(text, type_end(k))
    IN  {name(k) : k \in {l \in landings : /\ l <= Len(text)
                                           /\ type_end(l) > l
                                           /\ at(type_end(l)) \in {" ", "\n"}
                                           /\ name(l) <= Len(text)
                                           /\ IsWord(at(name(l)))}}

\* the match of \s*\([^)]*\) after a declaration head whose name is at
\* offset name: the offset of the closing parenthesis, or 0
ParameterListEnd(text, name) ==
    LET open == SkipBlanks(text, name + 1)
        close == FirstAt(text, open + 1, LAMBDA piece : piece = ")")
    IN  IF open <= Len(text) /\ text[open] = "(" /\ close <= Len(text) THEN close ELSE 0

\* the match a pattern takes among those found, each given as the offsets
\* of its start, of its name and of its end: the leftmost one, and of those
\* the one that takes most
LeftmostMatch(found) ==
    CHOOSE f \in found :
        \A other \in found : \/ f[1] < other[1]
                              \/ (f[1] = other[1] /\ other[2] <= f[2])

\* pattern.search(text) for _method_signature_pattern and
\* _method_return_type_pattern (lines 111-112), which differ in their group:
\* the leftmost match, as the offsets of its start, of the name and of its end
SignatureSearch(text) ==
    LET first(found) ==
            IF found = {} THEN [start |-> 0, name |-> 0, end |-> 0]
            ELSE [start |-> LeftmostMatch(found)[1], name |-> LeftmostMatch(found)[2],
                  end |-> LeftmostMatch(found)[3]]
    IN  first({f \in UNION {{<<i, n, ParameterListEnd(text, n)>> :
                                n \in DeclarationHeads(text, i)} : i \in 1..Len(text)} :
                  f[3] > 0})

\* str.strip()
Strip(text) ==
    LET inked == {i \in 1..Len(text) : text[i] \notin {" ", "\n"}}
    IN  IF inked = {} THEN <<>>
        ELSE SubSeq(text, CHOOSE i \in inked : \A j \in inked : i <= j,
                          CHOOSE i \in inked : \A j \in inked : j <= i)

\* str.split(',')
RECURSIVE SplitAtCommas(_)
SplitAtCommas(text) ==
    LET comma == FirstAt(text, 1, LAMBDA piece : piece = ",")
    IN  IF comma > Len(text) THEN <<text>>
        ELSE <<SubSeq(text, 1, comma - 1)>>
                \o SplitAtCommas(SubSeq(text, comma + 1, Len(text)))

\* _remove_parameter_names (lines 950-979); the signature at hand has one
\* pair of parentheses, which is the one that sub() replaces
RemoveParameterNames(signature) ==
    LET open == FirstAt(signature, 1, LAMBDA piece : piece = "(")
        close == FirstAt(signature, open + 1, LAMBDA piece : piece = ")")
        params_str == SubSeq(signature, open + 1, close - 1)
        params == [i \in DOMAIN SplitAtCommas(params_str) |->
                      Strip(SplitAtCommas(params_str)[i])]
        \* _param_type_name_pattern.match (line 116)
        type_end(param) == FirstAt(param, 1, LAMBDA piece :
                                      ~(IsWord(piece) \/ piece \in {"<", ">", "[", "]"}))
        dots(param) == IF type_end(param) <= Len(param) /\ param[type_end(param)] = "..."
                       THEN type_end(param) + 1 ELSE type_end(param)
        matches(param) == /\ type_end(param) > 1
                          /\ dots(param) + 1 <= Len(param)
                          /\ param[dots(param)] = " "
                          /\ IsWord(param[dots(param) + 1])
        kept(param) == IF matches(param) THEN SubSeq(param, 1, dots(param) - 1) ELSE param
        filled == SelectSeq(params, LAMBDA param : param # <<>>)
        RECURSIVE Join(_)
        Join(list) == IF list = <<>> THEN <<>>
                      ELSE IF Len(list) = 1 THEN kept(list[1])
                      ELSE kept(list[1]) \o <<",", " ">> \o Join(Tail(list))
    IN  IF close > Len(signature) THEN signature
        ELSE IF Strip(params_str) = <<>> THEN signature
        ELSE SubSeq(signature, 1, open) \o Join(filled)
                \o SubSeq(signature, close, Len(signature))

\* _extract_method_signature (lines 934-946) of JavaProjectAnalyzer
IndexerExtractMethodSignature(method_code) ==
    LET stripped(signature, return_type_match) ==
            IF return_type_match.start = 0 THEN signature
            ELSE Strip(SubSeq(signature, return_type_match.name, return_type_match.end))
        reduced(signature) == stripped(signature, SignatureSearch(signature))
        searched(match) ==
            IF match.start = 0 THEN <<>>
            ELSE reduced(RemoveParameterNames(
                            Strip(SubSeq(method_code, match.start, match.end))))
    IN  searched(SignatureSearch(method_code))

\* the loop of _find_method_end (lines 752-762), which is also the loop of
\* _extract_method_content_optimized (lines 795-805) and of
\* _extract_class_content_with_comments (lines 604-613): the offset past the
\* closing brace at which it leaves, or 0 when it reaches the end of the text
RECURSIVE BraceLoopFirstClose(_, _, _, _)
BraceLoopFirstClose(content, i, brace_count, start_brace) ==
    IF i > Len(content) THEN 0
    ELSE IF content[i] = "{"
         THEN BraceLoopFirstClose(content, i + 1, brace_count + 1, TRUE)
    ELSE IF content[i] = "}"
         THEN IF start_brace THEN i + 1
              ELSE BraceLoopFirstClose(content, i + 1, brace_count - 1, start_brace)
    ELSE BraceLoopFirstClose(content, i + 1, brace_count, start_brace)

RECURSIVE BraceLoop(_, _, _, _)
BraceLoop(content, i, brace_count, start_brace) ==
    IF i > Len(content) THEN 0
    ELSE IF content[i] = "{" THEN BraceLoop(content, i + 1, brace_count + 1, TRUE)
    ELSE IF content[i] = "}"
         THEN IF start_brace /\ brace_count - 1 = 0 THEN i + 1
              ELSE BraceLoop(content, i + 1, brace_count - 1, start_brace)
    ELSE BraceLoop(content, i + 1, brace_count, start_brace)

\* _find_method_end (lines 748-764)
FindMethodEnd(content, method_start) ==
    LET end == BraceLoop(content, method_start, 0, FALSE)
    IN  IF end = 0 THEN method_start ELSE end

\* _extract_method_content_optimized (lines 788-810) on a text without
\* annotations, where _find_annotation_start_optimized gives method_start
ExtractMethodContentOptimized(content, method_start) ==
    LET end == BraceLoop(content, method_start, 0, FALSE)
        method_end == IF end = 0 THEN method_start ELSE end
    IN  SubSeq(content, method_start, method_end - 1)

\* _extract_class_content_with_comments (lines 598-627) on a text without
\* blanks and comments, where _find_class_comment_start gives the offset
\* before class_start (lines 631, 670)
ExtractClassContentWithComments(content, class_start) ==
    LET end == BraceLoop(content, class_start, 0, FALSE)
        class_end == IF end = 0 THEN class_start ELSE end
        comment_start == IF class_start - 1 < 1 THEN 1 ELSE class_start - 1
    IN  SubSeq(content, comment_start, class_end - 1)

\* _method_pattern.finditer (lines 77-80, 738) on a text without
\* annotations: the offsets at which the matches start
RECURSIVE MethodStarts(_, _)
MethodStarts(class_content, from) ==
    LET rest(found) ==
            IF found = {} THEN <<>>
            ELSE <<LeftmostMatch(found)[1]>>
                    \o MethodStarts(class_content, LeftmostMatch(found)[3] + 1)
        brace(close) == SkipBlanks(class_content, close + 1)
    IN  rest({f \in UNION {{<<i, n, brace(ParameterListEnd(class_content, n))>> :
                               n \in {m \in DeclarationHeads(class_content, i) :
                                          ParameterListEnd(class_content, m) > 0}} :
                           i \in from..Len(class_content)} :
                 f[3] <= Len(class_content) /\ class_content[f[3]] = "{"})

\* _get_method_regions (lines 735-746)
GetMethodRegions(class_content) ==
    LET regions(starts) ==
            [i \in DOMAIN starts |->
                <<starts[i], FindMethodEnd(class_content, starts[i])>>]
    IN  SelectSeq(regions(MethodStarts(class_content, 1)),
                  LAMBDA region : region[2] > region[1])

\* _class_level_field_pattern.finditer (lines 98-108, 724) on a text without
\* annotations: the matches, as the offsets of their first and last piece
RECURSIVE FieldMatches(_, _)
FieldMatches(class_content, from) ==
    LET semicolon(sign) ==
            IF sign > Len(class_content) THEN 0
            ELSE IF class_content[sign] = ";" THEN sign
            ELSE IF class_content[sign] = "="
                 THEN FirstAt(class_content, sign, LAMBDA piece : piece = ";")
            ELSE 0
        line_starts == {i \in from..Len(class_content) :
                           i = 1 \/ class_content[i] = "\n" \/ class_content[i - 1] = "\n"}
        rest(found) ==
            IF found = {} THEN <<>>
            ELSE <<<<LeftmostMatch(found)[1], LeftmostMatch(found)[3]>>>>
                    \o FieldMatches(class_content, LeftmostMatch(found)[3] + 1)
    IN  rest({f \in UNION {{<<i, n, semicolon(SkipBlanks(class_content, n + 1))>> :
                               n \in DeclarationHeads(class_content,
                                                      SkipBlanks(class_content, i))} :
                           i \in line_starts} :
                 f[3] > 0 /\ f[3] <= Len(class_content)})

\* _extract_fields (lines 715-733) with _is_in_method_region (lines 766-771)
ExtractFields(class_content) ==
    LET outside(method_regions, field_matches) ==
            SelectSeq(field_matches,
                      LAMBDA match :
                          ~\E r \in 1..Len(method_regions) :
                               /\ method_regions[r][1] <= match[1]
                               /\ match[1] <= method_regions[r][2])
        texts(kept) == [i \in DOMAIN kept |-> SubSeq(class_content, kept[i][1], kept[i][2])]
    IN  texts(outside(GetMethodRegions(class_content), FieldMatches(class_content, 1)))

(***************************************************************************)
(* The texts the scans are called on.                                      *)
(***************************************************************************)
\* a declaration: modifiers, a return type, a name and (type, name) pairs
Modifiers ==
    {<<>>, <<"public", " ">>, <<"private", " ", "static", " ", "final", " ">>}

ReturnTypes ==
    {<<"void">>, <<"List", "<", "User", ">">>,
     <<"Map", "<", "String", ",", " ", "Integer", ">">>}

ParameterTypes ==
    {<<"String">>, <<"int">>, <<"List", "<", "User", ">">>, <<"String", "...">>,
     <<"int", "[", "]">>, <<"java", ".", "util", ".", "Date">>}

Declarations ==
    [modifiers : Modifiers, return_type : ReturnTypes, name : {"findAll"},
     types : SeqsUpTo(ParameterTypes, MaxParams)]

\* the parameters from the i-th on, with their names or reduced to their types
RECURSIVE ParameterList(_, _, _)
ParameterList(types, i, named) ==
    LET name == CASE i = 1 -> "name" [] i = 2 -> "limit" [] OTHER -> "rest"
        parameter == types[i] \o (IF named THEN <<" ", name>> ELSE <<>>)
    IN  IF i > Len(types) THEN <<>>
        ELSE IF i = Len(types) THEN parameter
        ELSE parameter \o <<",", " ">> \o ParameterList(types, i + 1, named)

\* the text of a declaration, up to the brace that opens its body
DeclarationText(d) ==
    d.modifiers \o d.return_type \o <<" ", d.name, "(">>
        \o ParameterList(d.types, 1, TRUE) \o <<")", " ", "{">>

\* largest number of members of a class, and what a member is: a field, a
\* method with a local variable, a method with a local variable in a nested
\* block, or a line comment
MaxMembers == 3

MemberKinds == {"field", "method", "nested", "comment"}

MemberText(kind, i) ==
    LET field_name == CASE i = 1 -> "first" [] i = 2 -> "second"
                        [] i = 3 -> "third" [] OTHER -> "last"
    IN  CASE kind = "field" ->
                <<"\n", " ", "private", " ", "int", " ", field_name, ";">>
          [] kind = "method" ->
                <<"\n", " ", "public", " ", "void", " ", "run", "(", ")", " ", "{",
                  "\n", " ", "int", " ", "local", " ", "=", " ", "1", ";",
                  "\n", " ", "}">>
          [] kind = "nested" ->
                <<"\n", " ", "void", " ", "walk", "(", ")", " ", "{",
                  "\n", " ", "if", " ", "(", "ok", ")", " ", "{",
                  "\n", " ", "int", " ", "inner", ";", "\n", " ", "}",
                  "\n", " ", "go", "(", ")", ";", "\n", " ", "}">>
          [] OTHER -> <<"\n", " ", "//", " ", "note">>

RECURSIVE MembersText(_, _)
MembersText(members, i) ==
    IF i > Len(members) THEN <<>>
    ELSE MemberText(members[i], i) \o MembersText(members, i + 1)

ClassContentText(members) ==
    <<"public", " ", "class", " ", "A", " ", "{">>
        \o MembersText(members, 1) \o <<"\n", "}">>

\* longest text the brace scans are called on; its pieces are the two
\* braces and anything else
MaxText == 5

BraceTexts == SeqsUpTo({"{", "}", "x"}, MaxText) \ {<<>>}

(***************************************************************************)
(* One call of a scan: scan.pc is "called" until the call returns.         *)
(***************************************************************************)
ScanCall(op_name, input, offset) ==
    [op |-> op_name, input |-> input, start |-> offset, out |-> <<>>, pc |-> "called"]

ScanInit ==
    /\ \/ \E declaration \in Declarations :
             scan = ScanCall("_extract_method_signature", declaration, 1)
       \/ \E members \in SeqsUpTo(MemberKinds, MaxMembers) :
             scan = ScanCall("_extract_fields", members, 1)
       \/ \E text \in BraceTexts, offset \in 1..MaxText :
             /\ offset <= Len(text)
             /\ \E op_name \in {"_find_method_end", "_extract_method_content_optimized",
                                 "_extract_class_content_with_comments"} :
                   scan = ScanCall(op_name, text, offset)
    /\ ipc = "idle"
    /\ runs = EmptyDict
    /\ disk = EmptyDict
    /\ pmd_report = EmptyDict
    /\ pmd_report_data = EmptyDict
    /\ p3c_env = EmptyDict
    /\ fpc = "off"
    /\ build = EmptyDict
    /\ indexer = EmptyDict
    /\ project = <<>>
    /\ analyses = 0
    /\ PipelineIdle

ScanFrame ==
    UNCHANGED <<indexVars, levelVars, build, runs, disk, extractVars, analyzerVars,
                pipelineVars>>

\* _extract_method_signature (lines 934-946)
ExtractMethodSignatureReturn ==
    /\ scan.pc = "called"
    /\ scan.op = "_extract_method_signature"
    /\ scan' = [scan EXCEPT !.pc = "returned",
                            !.out = IndexerExtractMethodSignature(DeclarationText(scan.input))]
    /\ ScanFrame

\* _extract_fields (lines 715-733)
ExtractFieldsReturn ==
    /\ scan.pc = "called"
    /\ scan.op = "_extract_fields"
    /\ scan' = [scan EXCEPT !.pc = "returned",
                            !.out = ExtractFields(ClassContentText(scan.input))]
    /\ ScanFrame

\* _find_method_end (lines 748-764), _extract_method_content_optimized
\* (lines 788-810), _extract_class_content_with_comments (lines 598-627)
BraceScanReturn ==
    /\ scan.pc = "called"
    /\ scan.op \notin {"_extract_method_signature", "_extract_fields"}
    /\ scan' = [scan EXCEPT
                   !.pc = "returned",
                   !.out = CASE scan.op = "_find_method_end" ->
                                   <<FindMethodEnd(scan.input, scan.start)>>
                             [] scan.op = "_extract_method_content_optimized" ->
                                   ExtractMethodContentOptimized(scan.input, scan.start)
                             [] OTHER ->
                                   ExtractClassContentWithComments(scan.input, scan.start)]
    /\ ScanFrame

ScanNext == ExtractMethodSignatureReturn \/ ExtractFieldsReturn \/ BraceScanReturn

SpecScan == ScanInit /\ [][ScanNext]_vars

\* C23: for every declaration made of optional modifiers, a return type, a
\* name and (type, name) pairs, _extract_method_signature returns the name
\* followed by the parenthesised parameter types in declaration order:
\* modifiers, return type and parameter names are removed
C23_SignatureStripping ==
    (scan.op = "_extract_method_signature" /\ scan.pc = "returned")
        => scan.out = <<scan.input.name, "(">>
                         \o ParameterList(scan.input.types, 1, FALSE) \o <<")">>

\* C28: _extract_fields returns the texts matching the field declaration
\* pattern that are not inside the brace range of a method: every field of
\* the class, also the one on the line that follows a method's closing
\* brace, and no local variable of a method body
C28_FieldExclusionZones ==
    (scan.op = "_extract_fields" /\ scan.pc = "returned")
        => LET members == scan.input
               fields == SelectSeq([i \in DOMAIN members |-> i],
                                   LAMBDA i : members[i] = "field")
           IN  scan.out = [k \in DOMAIN fields |-> MemberText("field", fields[k])]

\* C29: scanning forward from a start offset whose first brace is "{", the
\* block ends just past the first "}" at which the number of "{" seen minus
\* the number of "}" seen is back to zero; when the count never gets back to
\* zero, the extracted block holds no text at or after the start offset
C29_BraceCounting ==
    LET text == scan.input
        open == FirstAt(text, scan.start, LAMBDA piece : piece \in {"{", "}"})
        count(e) == Cardinality({i \in scan.start..e : text[i] = "{"})
                        - Cardinality({i \in scan.start..e : text[i] = "}"})
        closes == {e \in (open + 1)..Len(text) : text[e] = "}" /\ count(e) = 0}
        close == CHOOSE e \in closes : \A other \in closes : e <= other
        block == scan.out
    IN  (/\ scan.pc = "returned"
         /\ scan.op \notin {"_extract_method_signature", "_extract_fields"}
         /\ open <= Len(text)
         /\ text[open] = "{")
        => IF closes # {}
           THEN CASE scan.op = "_find_method_end" -> block = <<close + 1>>
                  [] scan.op = "_extract_method_content_optimized" ->
                        block = SubSeq(text, scan.start, close)
                  [] OTHER ->
                        /\ Len(block) >= close - scan.start + 1
                        /\ block = SubSeq(text, close - Len(block) + 1, close)
           ELSE CASE scan.op = "_find_method_end" -> block = <<scan.start>>
                  [] scan.op = "_extract_method_content_optimized" -> block = <<>>
                  [] OTHER ->
                        /\ Len(block) < scan.start
                        /\ block = SubSeq(text, scan.start - Len(block), scan.start - 1)

\* a block with a nested block has been scanned to its end
C29_Witness ==
    /\ scan.pc = "returned"
    /\ scan.op = "_find_method_end"
    /\ scan.input = <<"{", "{", "}", "}", "x">>
    /\ scan.start = 1
    /\ scan.out = <<5>>

(***************************************************************************)
(* CallChainAnalysisService.process: analysis runs over one workspace.     *)
(* disk maps the path of each artefact file that exists to the run that    *)
(* wrote it last.  A run keeps the paths it touched and the paths it read  *)
(* while another run was their last writer.                                *)
(***************************************************************************)
Runs == {"r1", "r2"}

\* webhook_data['project']: with a name, with an empty name, without a name
Projects ==
    {[name |-> "qnvip-qwen"], [name |-> "unknown_project"], [name |-> ""], EmptyDict}

WorkspacePath == "workspace"

GetProjectTmpDirShared(workspace_path, project_name) ==
    <<workspace_path, <<"qnvip-qwen", "_tmp">>>>

\* FileUtil.get_project_tmp_dir (file_util.py lines 164-177)
GetProjectTmpDir(workspace_path, project_name) ==
    <<workspace_path, <<IF project_name = "" THEN "qnvip-qwen" ELSE project_name, "_tmp">>>>

\* FileUtil.get_project_file_path (file_util.py lines 179-193)
GetProjectFilePath(workspace_path, project_name, filename) ==
    Append(GetProjectTmpDir(workspace_path, project_name), filename)

\* project_info['name'] (call_chain_analysis_service.py line 270)
ProjectInfoName(webhook_project) ==
    IF "name" \in DOMAIN webhook_project THEN webhook_project.name ELSE "unknown_project"

InProgress(run) == run.pc \notin {"new", "done"}

\* the run has read the files: the paths are touched, and those whose last
\* writer is another run are noted
ReadBy(r, run, paths) ==
    [run EXCEPT !.touched = @ \cup paths,
                !.foreign = @ \cup {p \in paths \cap DOMAIN disk : disk[p] # r}]

RunsInit ==
    /\ runs \in [Runs -> [project : Projects, pc : {"new"}, pmd_report_file : {FALSE},
                          changed_methods_file : {"2_changed_methods.json"},
                          touched : {{}}, foreign : {{}}, overlapped : {FALSE}]]
    /\ disk = EmptyDict
    /\ scan = EmptyDict
    /\ ipc = "idle"
    /\ pmd_report = EmptyDict
    /\ pmd_report_data = EmptyDict
    /\ p3c_env = EmptyDict
    /\ fpc = "off"
    /\ build = EmptyDict
    /\ indexer = EmptyDict
    /\ project = <<>>
    /\ analyses = 0
    /\ PipelineIdle

RunsFrame ==
    UNCHANGED <<indexVars, levelVars, build, scan, extractVars, analyzerVars, pipelineVars>>

\* process up to the first stage (lines 65-69, 108-111).  For a project
\* whose name is neither missing nor empty before_process_changes (lines
\* 37-47) calls delete_prompt_file, which calls FileUtil.delete_file
\* (java_code_to_md.py lines 120-121); FileUtil has no such attribute, so
\* the call raises and process ends before any stage.  For the other
\* projects nothing is deleted and the clone gives project_info
BeforeProcessChanges(r) ==
    LET webhook_project == runs[r].project
        named == "name" \in DOMAIN webhook_project /\ webhook_project.name # ""
        meets(q) == q # r /\ InProgress(runs[q]) /\ runs[q].project = webhook_project
    IN  /\ runs[r].pc = "new"
        /\ runs' = [q \in Runs |->
                       IF q = r
                       THEN [runs[r] EXCEPT
                                !.pc = IF named THEN "done" ELSE "2",
                                !.overlapped = ~named /\ \E other \in Runs : meets(other)]
                       ELSE [runs[q] EXCEPT !.overlapped = @ \/ (~named /\ meets(q))]]
        /\ disk' = disk
        /\ RunsFrame

\* the stages 2 to 5 of _process_java_changes (lines 113-163): what the
\* stage at run.pc reads, the file it writes and the stage that follows
StageOf(run) ==
    LET at == run.pc
    IN  CASE at = "2" ->
                [reads |-> {}, writes |-> "1_analyze_project.json", next |-> "3"]
          [] at = "3" ->
                [reads |-> {"1_analyze_project.json"},
                 writes |-> "2_changed_methods.json", next |-> "3.1"]
          [] at = "3.1" ->
                [reads |-> {}, writes |-> "plugin_pmd_report_enhanced.json", next |-> "3.2"]
          [] at = "3.2" ->
                [reads |-> {"plugin_pmd_report_enhanced.json", "2_changed_methods.json"},
                 writes |-> "2_changed_methods_filter.json", next |-> "4"]
          [] at = "4" ->
                [reads |-> {run.changed_methods_file, "1_analyze_project.json"},
                 writes |-> "3_method_calls.json", next |-> "5"]
          [] OTHER ->
                [reads |-> {"3_method_calls.json", "1_analyze_project.json"},
                 writes |-> "4_code_context.json", next |-> "6"]

\* one of the stages 2 to 5: the stage reads its inputs and saves its
\* output.  Stage 3 returns when no changed method is found (lines 122-124);
\* stage 3.1 may give no PMD report (lines 137-138), and then stage 3.2
\* reads and writes nothing; stage 3.2 may save nothing (lines 149-150)
ProcessJavaChangesStage(r) ==
    LET run == runs[r]
        stage == StageOf(run)
        name == ProjectInfoName(run.project)
        path(filename) == GetProjectFilePath(WorkspacePath, name, filename)
        output_file == path(stage.writes)
        saved == [ReadBy(r, run, {path(f) : f \in stage.reads}) EXCEPT
                     !.pc = stage.next,
                     !.touched = @ \cup {output_file},
                     !.pmd_report_file = @ \/ run.pc = "3.1",
                     !.changed_methods_file =
                         IF run.pc = "3.2" THEN stage.writes ELSE @]
    IN  /\ run.pc \in {"2", "3", "3.1", "3.2", "4", "5"}
        /\ \/ /\ run.pc = "3.2" => run.pmd_report_file
              /\ runs' = [runs EXCEPT ![r] = saved]
              /\ disk' = Put(disk, output_file, r)
           \/ /\ run.pc = "3"
              /\ runs' = [runs EXCEPT ![r] = [ReadBy(r, run, {path(f) : f \in stage.reads})
                                                 EXCEPT !.pc = "done"]]
              /\ disk' = disk
           \/ /\ run.pc = "3.1"
              /\ runs' = [runs EXCEPT ![r].pc = stage.next]
              /\ disk' = disk
           \/ /\ run.pc = "3.2"
              /\ runs' = [runs EXCEPT
                             ![r] = IF run.pmd_report_file
                                    THEN [ReadBy(r, run, {path(f) : f \in stage.reads})
                                             EXCEPT !.pc = stage.next]
                                    ELSE [run EXCEPT !.pc = stage.next]]
              /\ disk' = disk
        /\ RunsFrame

\* stage 6 (lines 165-170): generate_assemble_prompt (java_code_to_md.py
\* lines 124-157) loads the changed methods and the code context, and
\* _save_format_fields_to_file (lines 210-240) loads the prompt file that
\* exists, updates it and saves it
GenerateAssemblePrompt(r) ==
    LET run == runs[r]
        name == ProjectInfoName(run.project)
        path(filename) == GetProjectFilePath(WorkspacePath, name, filename)
        output_file == path("5_changed_prompt.json")
    IN  /\ run.pc = "6"
        /\ runs' = [runs EXCEPT
                       ![r] = [ReadBy(r, run, {path(run.changed_methods_file),
                                               path("4_code_context.json"), output_file})
                                  EXCEPT !.pc = "7"]]
        /\ disk' = Put(disk, output_file, r)
        /\ RunsFrame

\* stage 7 (line 173): load_prompts_from_file (file_util.py lines 150-161)
LoadPromptsFromFile(r) ==
    LET run == runs[r]
        changed_prompt_file == GetProjectFilePath(WorkspacePath, ProjectInfoName(run.project),
                                                  "5_changed_prompt.json")
    IN  /\ run.pc = "7"
        /\ runs' = [runs EXCEPT ![r] = [ReadBy(r, run, {changed_prompt_file})
                                           EXCEPT !.pc = "done"]]
        /\ disk' = disk
        /\ RunsFrame

RunStep(r) ==
    \/ BeforeProcessChanges(r)
    \/ ProcessJavaChangesStage(r)
    \/ GenerateAssemblePrompt(r)
    \/ LoadPromptsFromFile(r)

RunsNext == \E r \in Runs : RunStep(r)

SpecRuns == RunsInit /\ [][RunsNext]_vars

C22_SameProjectHazard ==
    \A r \in Runs :
        /\ runs[r].pc # "done" => ENABLED RunStep(r)
        /\ (\A q \in Runs : runs[q].project = runs[r].project => ~runs[q].overlapped)
              => runs[r].foreign = {}

====
